---- MODULE Spec2Model ----
(***************************************************************************)
(* A model of the account + keyword crawl loop of X_KEYS_ACCOUNTS          *)
(* (src/src/crawler/account_search_crawler.py) with the date helpers it    *)
(* calls (src/src/utils/date_utils.py).                                    *)
(*                                                                         *)
(* Strings the code inspects character by character (handles, keyword,     *)
(* text) are sequences of one-character strings.  Strings it only compares *)
(* or copies (tweet ids, cursors, counts, messages) are TLA+ strings.      *)
(* Instants are hours since an epoch; dates are days since that epoch.     *)
(***************************************************************************)
EXTENDS Integers, Sequences, FiniteSets, TLC

\* Python's None, for the optional strings (cursor, in_reply_to_status_id).
None == "<None>"

\* bool(x) of an optional string: None and "" are falsy.
Truthy(x) == x # None /\ x # ""

-----------------------------------------------------------------------------
(* Inputs of one crawl_account_keyword invocation *)

\* The handles of the accounts file, in file order (load_accounts keeps the
\* order and drops repeated handles).
Accounts == << <<"N", "b">>, <<"x", "y">> >>

\* The inclusive date window [start_date, end_date], in days.
start_date == 1
end_date == 2

\* The default of AccountSearchCrawler.max_empty_pages, and the values a
\* crawler may be constructed with: the positive ones up to the default.
DefaultMaxEmptyPages == 3
MaxEmptyPagesValues == 1..DefaultMaxEmptyPages

\* timezone_name = "Asia/Shanghai": UTC+8, in hours.
TzOffsetHours == 8
HoursPerDay == 24

\* The keyword rules a crawl may be invoked with: a two-term rule in mixed
\* case, and a rule that holds whitespace only (no term).
Keywords == { <<"A", "b", " ", "c">>, <<" ">> }

-----------------------------------------------------------------------------
(* str.casefold, str.split and the substring test *)

IsSpace(ch) == ch \in {" ", "\n", "\t"}

casefold_char(ch) ==
    CASE ch = "A" -> "a"
      [] ch = "B" -> "b"
      [] ch = "C" -> "c"
      [] ch = "N" -> "n"
      [] ch = "X" -> "x"
      [] OTHER -> ch

casefold(s) == [i \in 1..Len(s) |-> casefold_char(s[i])]

\* str.split() without arguments: scan left to right, cut at every run of
\* whitespace, never produce an empty piece.
RECURSIVE split_from(_, _, _, _)
split_from(s, i, cur, acc) ==
    IF i > Len(s)
    THEN IF cur = <<>> THEN acc ELSE Append(acc, cur)
    ELSE IF IsSpace(s[i])
         THEN split_from(s, i + 1, <<>>, IF cur = <<>> THEN acc ELSE Append(acc, cur))
         ELSE split_from(s, i + 1, Append(cur, s[i]), acc)

split(s) == split_from(s, 1, <<>>, <<>>)

\* Python's `needle in hay` for strings.
str_contains(hay, needle) ==
    \E off \in 0..(Len(hay) - Len(needle)) :
        SubSeq(hay, off + 1, off + Len(needle)) = needle

\* A match that is content with one term of the rule.
keyword_hit_any(kw, text, quoted_text) ==
    LET terms == SelectSeq(split(casefold(kw)), LAMBDA term : term # <<>>)
        haystack == casefold(text \o <<"\n">> \o quoted_text)
    IN  \E k \in DOMAIN terms : str_contains(haystack, terms[k])

_keyword_hit(kw, text, quoted_text) ==
    LET terms == SelectSeq(split(casefold(kw)), LAMBDA term : term # <<>>)
        haystack == casefold(text \o <<"\n">> \o quoted_text)
    IN  IF terms = <<>>
        THEN FALSE
        ELSE \A k \in DOMAIN terms : str_contains(haystack, terms[k])

-----------------------------------------------------------------------------
(* date_utils *)

\* The date taken in UTC, without the timezone.
to_local_date_utc(ts_utc) == ts_utc \div HoursPerDay

to_local_date(ts_utc) == (ts_utc + TzOffsetHours) \div HoursPerDay

in_date_range(ts_utc, start, end) ==
    LET local_day == to_local_date(ts_utc)
    IN  start <= local_day /\ local_day <= end

-----------------------------------------------------------------------------
(* ParsedPost and SearchPage, as the page parser hands them to the crawl *)

\* datetime.isoformat() of a UTC instant: the UTC calendar day and the hour.
isoformat(ts_utc) == [day |-> ts_utc \div HoursPerDay, hour |-> ts_utc % HoursPerDay]

\* f"https://x.com/{account_handle}/status/{tweet_id}"
format_post_url(handle, tweet_id) == <<"https://x.com/", handle, "/status/", tweet_id>>

ParsedPost(tweet_id, handle, created_at_utc, text, quoted_text, in_reply_to) ==
    [ tweet_id |-> tweet_id,
      account_handle |-> handle,
      created_at_utc |-> created_at_utc,
      post_time |-> isoformat(created_at_utc),
      text |-> text,
      post_url |-> format_post_url(handle, tweet_id),
      views |-> "",
      likes |-> "3",
      reposts |-> "2",
      replies |-> "1",
      quoted_text |-> quoted_text,
      in_reply_to_status_id |-> in_reply_to ]

\* The posts the server may return.  With the window [1, 2] and UTC+8:
\* hour 15 is local day 0 (before start), hour 16 is local day 1 although
\* UTC day 0, hour 63 is local day 2, hour 64 is local day 3 although UTC
\* day 2.  The rule "Ab c" has the terms "ab" and "c".
Catalogue ==
    { ParsedPost("101", <<"N", "b">>, 16, <<"a", "B", "c">>, <<>>, None),
      ParsedPost("102", <<"n", "B">>, 63, <<"a", "b">>, <<"C">>, ""),
      ParsedPost("101", <<"N", "b">>, 15, <<"a", "B", "c">>, <<>>, None),
      ParsedPost("102", <<"N", "b">>, 64, <<"a", "B", "c">>, <<>>, None),
      ParsedPost("101", <<"N", "b">>, 16, <<"a", "B", "c">>, <<>>, "9"),
      ParsedPost("101", <<"x", "y">>, 16, <<"a", "B", "c">>, <<>>, None),
      ParsedPost("101", <<"N", "b">>, 16, <<"a", "b">>, <<>>, None),
      ParsedPost("102", <<"N", "b">>, 16, <<"a">>, <<"b", "c">>, None),
      ParsedPost("102", <<"N", "b">>, 15, <<"a", "B", "c">>, <<>>, "9"),
      ParsedPost("102", <<"x", "y">>, 15, <<"a", "B", "c">>, <<>>, None) }

\* At most this many posts on one page.
MaxPostsPerPage == 2

PageSizes == 0..MaxPostsPerPage

\* page.next_cursor: absent, empty, or one of three cursor strings.
CursorValues == {None, "", "C1", "C2", "C3"}

\* str(exc) of an exception other than AuthenticationError.
Messages == {"boom", ""}

-----------------------------------------------------------------------------
(* State of one crawl_account_keyword generator.  The generator reads the   *)
(* posts of a page one by one and in order, so the model lets the server    *)
(* fix the length and the cursor of a page when the page is fetched and     *)
(* the content of each post when the loop reaches it.                       *)

VARIABLES
    account_handle,       \* account.handle of this invocation
    keyword,              \* the keyword rule of this invocation
    max_empty_pages,      \* self.max_empty_pages of the crawler
    seen_tweet_ids,       \* set of tweet ids
    seen_cursors,         \* set of cursors
    cursor,               \* cursor of the next request (None at first)
    empty_page_streak,
    page_index,
    pc,                   \* "request", "loop", "returned" or "raised"
    page_len,             \* len(page.posts) of the page in hand
    post_index,           \* how many posts of that page the loop has taken
    post,                 \* the post the loop took last (NoPost before the first)
    page_next_cursor,     \* page.next_cursor of the page in hand
    reached_older_posts,
    yielded,              \* the records yielded so far, in order
    sources,              \* history: the post each record was built from
    requests,             \* history: the cursor argument of every search call
    last_call,            \* history: outcome of the latest search call
    page_has_older,       \* history: a post of the page in hand is dated before start
    page_counted_older    \* history: such a post passed the author, duplicate and reply filters

crawl_vars ==
    <<account_handle, keyword, max_empty_pages, seen_tweet_ids, seen_cursors, cursor,
      empty_page_streak, page_index, pc, page_len, post_index, post, page_next_cursor,
      reached_older_posts, yielded, sources, requests, last_call,
      page_has_older, page_counted_older>>

\* State of main() of run.py from the first pair on, with the _crawl_keyword
\* call it is in.
VARIABLES
    driver_pc,            \* "first" / "retry": in that _crawl_keyword call of the pair;
                          \* "done": past the loops; "aborted": refresh_cookies raised;
                          \* "none": no driver (a crawl on its own)
    account_index,        \* position of `for account in accounts`
    keyword_index,        \* position of `for keyword in keywords`
    row_count,            \* row_count of the _crawl_keyword call
    total_rows,
    cookies,              \* the cookie jar in hand, by number
    client_jar,           \* the jar the current client was built from
    output,               \* the rows the writer has written, in order
    crawl_log,            \* history: the pair and the client jar of every _crawl_keyword call
    refresh_log           \* history: the pair of every refresh_cookies call

driver_vars ==
    <<driver_pc, account_index, keyword_index, row_count, total_rows, cookies,
      client_jar, output, crawl_log, refresh_log>>

\* State of one XProtocolClient during one _get_json_with_retry call (one
\* logical search request).  Times are in seconds.
VARIABLES
    max_retries,          \* self.max_retries
    attempt,              \* the loop variable of `for attempt in range(1, max_retries + 1)`
    last_error,           \* None, or the network exception caught last
    rate_limit_limit,     \* self._rate_limit_limit (NoNumber for None)
    rate_limit_remaining, \* self._rate_limit_remaining
    rate_limit_reset,     \* self._rate_limit_reset
    transaction_context,  \* self._transaction_context: None or "context"
    now,                  \* time.time()
    client_pc,            \* "attempt": at the head of the loop; "sent": the request is
                          \* out; "returned" / "raised": the call is over;
                          \* "none": no client call
    result,               \* what the call returned or raised
    http_requests,        \* history: number of self._client.get calls for the search path
    stamped,              \* history: the latest request carried x-client-transaction-id
    last_response,        \* history: the latest response (status 0: a network
                          \* exception), the time it came, how the rebuild it asked
                          \* for ended, its body unless it is a 404
    retryable_attempts,   \* history: attempts that ended in a 429, a status >= 500, a 404
                          \* with a rebuild that succeeded, or a network exception
    network_error_seen,   \* history: the latest network exception, None if none
    last_wait,            \* history: what _sleep_backoff returned after it
    slept_since_response, \* history: seconds slept since the latest response or error
    rebuilds              \* history: forced context rebuilds asked for after a 404

client_vars ==
    <<max_retries, attempt, last_error, rate_limit_limit, rate_limit_remaining,
      rate_limit_reset, transaction_context, now, client_pc, result, http_requests,
      stamped, last_response, retryable_attempts, network_error_seen, last_wait,
      slept_since_response, rebuilds>>

\* State of one XProtocolClient across _update_rate_limit_state calls.
VARIABLES
    rl_state,             \* the three fields of the RateLimitState, by name
    rl_before,            \* history: the fields before the latest call
    rl_headers            \* history: the headers of the latest call, by name

rl_vars == <<rl_state, rl_before, rl_headers>>

\* State of one XProtocolClient.verify_credentials call.
VARIABLES
    verify_pc,            \* "start"; "stage1" / "stage2": that request is out;
                          \* "done": the call returned; "none": no call
    ct0,                  \* the ct0 cookie of the client: None when the jar has none
    verify_result,        \* the value returned (meaningful when done)
    verify_requests,      \* history: the endpoints requested, in order
    verify_outcomes       \* history: the status of each request, 0 for a network error

verify_vars == <<verify_pc, ct0, verify_result, verify_requests, verify_outcomes>>

\* State of one SessionManager during one ensure_cookies or refresh_cookies
\* call, with the cookie file it manages.
VARIABLES
    sm_pc,                \* "ensure": ensure_cookies is about to load the file;
                          \* "probe_existing": the probe of the loaded jar is out;
                          \* "login": refresh_cookies is about to run the login flow;
                          \* "probe_fresh": the probe of the new jar is out;
                          \* "returned" / "raised": the call is over; "none": no call
    sm_entry,             \* the method called: "ensure_cookies" or "refresh_cookies"
    cookie_file,          \* what cookies_path holds
    sm_loaded,            \* what load_cookies gave ensure_cookies
    sm_cookies,           \* `cookies` of refresh_cookies: the jar the login flow gave
    sm_result,            \* what the call returned or raised
    sm_logins,            \* history: number of _interactive_login calls
    sm_probes,            \* history: the jar and the outcome of every probe call
    sm_saved,             \* history: the jar of every save_cookies call
    cookie_file_before    \* history: what cookies_path held when the call began

session_vars ==
    <<sm_pc, sm_entry, cookie_file, sm_loaded, sm_cookies, sm_result, sm_logins,
      sm_probes, sm_saved, cookie_file_before>>

\* Two generate_transaction_id calls on one XClientTransaction, and the wall
\* clock between them.
VARIABLES
    txn_clock,            \* floor(time.time()) - 1682924400 at this moment
    txn_first,            \* the first call: its arguments and the id returned
    txn_second            \* the second call

txn_vars == <<txn_clock, txn_first, txn_second>>

\* The TransactionContext of one XProtocolClient across its requests.
VARIABLES
    st_pc,                \* "idle": no request is out; "sent": one is; "none"
    st_context,           \* self._transaction_context: None or "context"
    st_generation,        \* history: how many contexts have been built; the one in
                          \* hand, if any, is the latest
    st_stamped_by,        \* history: the context whose id the latest request carries,
                          \* 0 when it carries none
    st_stale,             \* history: the contexts that were in hand when a 404 came
    st_inputs,            \* history: how the builds and generations of the latest
                          \* header construction went
    st_fetches,           \* history: how many times the latest step fetched the
                          \* home page to build a context
    st_response,          \* history: the response of the latest request: "none",
                          \* "404" or "other"
    st_last_build         \* history: how the latest build of a context ended:
                          \* "none", "built", "failed" or "raised"

stamp_vars == <<st_pc, st_context, st_generation, st_stamped_by, st_stale, st_inputs,
               st_fetches, st_response, st_last_build>>

\* Payloads handed to parse_search_page one after the other.
VARIABLES
    parser_input,         \* the payloads, in the order they are parsed
    parser_output         \* what parse_search_page made of each parsed payload

parser_vars == <<parser_input, parser_output>>

\* main() of run.py from its first line to the first network work.
VARIABLES
    main_pc,              \* "arguments", "inputs", "output", "cookies", "crawling",
                          \* "returned", "raised" or "none"
    main_input,           \* the command line and the input files of this run
    main_exit,            \* the value main returned, NoNumber while it has not
    main_raised,          \* the exception that left main, None when none did
    main_effects          \* history: output files created and probes made, in order

main_vars == <<main_pc, main_input, main_exit, main_raised, main_effects>>

\* The clients and the writer of one run of main(), from the creation of
\* the first client to the end of `finally`.
VARIABLES
    lc_pc,                \* "first" / "retry": in that _crawl_keyword call; "refresh": in
                          \* refresh_cookies; "finally"; "ended"; "none"
    lc_pairs_left,        \* pairs of the loops not finished yet
    lc_client,            \* `client` of main: the number of the client it holds
    lc_crawl_client,      \* self.client of the crawler of the running _crawl_keyword call
    lc_closed,            \* the clients on which close() was called
    lc_writer_closed,     \* writer.close() was called
    lc_requests,          \* history: for every search request, its client, whether that
                          \* client was open and whether every older client was closed
    lc_end,               \* how the run left the loops: "", "done", "refresh failed",
                          \* "exception"
    lc_error_records      \* history: error records main wrote after a failed retry

lifecycle_vars ==
    <<lc_pc, lc_pairs_left, lc_client, lc_crawl_client, lc_closed, lc_writer_closed,
      lc_requests, lc_end, lc_error_records>>

\* One call of _sleep_backoff.
VARIABLES
    bo_input,             \* attempt, retry_after (the header text), kind, int(time.time())
    bo_slept,             \* the seconds handed to time.sleep, NoNumber before the call
    bo_returned           \* the value returned, NoNumber before the call

backoff_vars == <<bo_input, bo_slept, bo_returned>>

\* The state of the parts modelled on their own.
aux_vars == <<rl_vars, verify_vars, session_vars, txn_vars, stamp_vars, parser_vars, main_vars, lifecycle_vars, backoff_vars>>

\* The crawl, the driver and the retry loop.
core_vars == <<crawl_vars, driver_vars, client_vars>>

\* What a step of each part leaves alone.
rl_frame == <<core_vars, verify_vars, session_vars, txn_vars, stamp_vars, parser_vars, main_vars, lifecycle_vars, backoff_vars>>
verify_frame == <<core_vars, rl_vars, session_vars, txn_vars, stamp_vars, parser_vars, main_vars, lifecycle_vars, backoff_vars>>
session_frame == <<core_vars, rl_vars, verify_vars, txn_vars, stamp_vars, parser_vars, main_vars, lifecycle_vars, backoff_vars>>
txn_frame == <<core_vars, rl_vars, verify_vars, session_vars, stamp_vars, parser_vars, main_vars, lifecycle_vars, backoff_vars>>
stamp_frame == <<core_vars, rl_vars, verify_vars, session_vars, txn_vars, parser_vars, main_vars, lifecycle_vars, backoff_vars>>
parser_frame == <<core_vars, rl_vars, verify_vars, session_vars, txn_vars, stamp_vars, main_vars, lifecycle_vars, backoff_vars>>
main_frame == <<core_vars, rl_vars, verify_vars, session_vars, txn_vars, stamp_vars, parser_vars, lifecycle_vars, backoff_vars>>
lifecycle_frame == <<core_vars, rl_vars, verify_vars, session_vars, txn_vars, stamp_vars, parser_vars, main_vars, backoff_vars>>
backoff_frame == <<core_vars, rl_vars, verify_vars, session_vars, txn_vars, stamp_vars, parser_vars, main_vars, lifecycle_vars>>

vars == <<crawl_vars, driver_vars, client_vars, aux_vars>>

\* No post: the entry of `sources` that goes with an error record, and the
\* loop variable before the first post.
NoPost == [tweet_id |-> None]

-----------------------------------------------------------------------------
(* The per-post filters of the crawl loop *)

\* A loop that lets every author through.
other_author_never(p) == FALSE

\* post.account_handle.casefold() != account.handle.casefold()
other_author(p) == casefold(p.account_handle) # casefold(account_handle)

\* A loop that never finds a tweet id in seen_tweet_ids.
already_seen_never(tweet_id, seen) == FALSE

\* post.tweet_id in seen_tweet_ids
already_seen(tweet_id, seen) == tweet_id \in seen

\* A loop without the reply filter.
is_reply_never(p) == FALSE

\* if post.in_reply_to_status_id:
is_reply(p) == Truthy(p.in_reply_to_status_id)

\* to_local_date(post.created_at_utc, tz) < start_date
older_than_start(p) == to_local_date(p.created_at_utc) < start_date

\* The dict yielded for a post that passed every filter.
success_record(p) ==
    [ account |-> account_handle,
      keyword |-> keyword,
      post_time |-> p.post_time,
      text |-> p.text,
      post_url |-> p.post_url,
      views |-> p.views,
      likes |-> p.likes,
      reposts |-> p.reposts,
      replies |-> p.replies,
      quoted_text |-> p.quoted_text,
      error |-> "" ]

\* An error record that loses the exception message.
error_record_without_message(account, kw, error) ==
    [ account |-> account,
      keyword |-> kw,
      post_time |-> "",
      text |-> "",
      post_url |-> "",
      views |-> "",
      likes |-> "",
      reposts |-> "",
      replies |-> "",
      quoted_text |-> "",
      error |-> "" ]

_error_record(account, kw, error) ==
    [ account |-> account,
      keyword |-> kw,
      post_time |-> "",
      text |-> "",
      post_url |-> "",
      views |-> "",
      likes |-> "",
      reposts |-> "",
      replies |-> "",
      quoted_text |-> "",
      error |-> error ]

-----------------------------------------------------------------------------
(* The stop rules after the posts of a page *)

\* if not page.posts and not page.next_cursor: return
empty_and_last(n_posts, next_cursor) == n_posts = 0 /\ ~Truthy(next_cursor)

\* A loop that goes on after an older post.
stop_on_older_never(reached_older) == FALSE

\* if reached_older_posts: return
stop_on_older(reached_older) == reached_older

\* The streak limit compared with > instead of >=.
streak_limit_exceeded(streak) == streak > max_empty_pages

\* if empty_page_streak >= self.max_empty_pages: return
streak_limit_reached(streak) == streak >= max_empty_pages

\* The cursor check without seen_cursors.
cursor_repeated_current_only(next_cursor, cur, seen) == next_cursor = cur

\* No cursor check at all.
cursor_repeated_never(next_cursor, cur, seen) == FALSE

\* if next_cursor == cursor or next_cursor in seen_cursors: return
cursor_repeated(next_cursor, cur, seen) == next_cursor = cur \/ next_cursor \in seen

\* A loop that keeps the cursor it has.
cursor_kept(next_cursor, cur) == cur

\* `cursor = next_cursor`: the cursor of the next request.
cursor_of_next_request(next_cursor, cur) == next_cursor

-----------------------------------------------------------------------------
(* Vocabulary of the properties *)

Range(seq) == { seq[i] : i \in DOMAIN seq }

\* Record i of `yielded` was built from a post (it is no error record).
FromPost(i) == sources[i].tweet_id # None

\* The calendar day, in the configured timezone, that holds the instant ts.
LocalDay(ts) ==
    CHOOSE d \in 0..(ts + TzOffsetHours) :
        /\ HoursPerDay * d <= ts + TzOffsetHours
        /\ ts + TzOffsetHours < HoursPerDay * (d + 1)

\* The instant an isoformat() rendering denotes.
InstantOf(post_time) == post_time.day * HoursPerDay + post_time.hour

SameIgnoringCase(a, b) ==
    /\ Len(a) = Len(b)
    /\ \A k \in 1..Len(a) : casefold_char(a[k]) = casefold_char(b[k])

\* The whitespace-separated terms of a rule: its maximal runs of
\* characters that are not whitespace.
TermsOf(rule) ==
    { SubSeq(rule, r[1], r[2]) :
        r \in { q \in (1..Len(rule)) \X (1..Len(rule)) :
                  /\ q[1] <= q[2]
                  /\ \A k \in q[1]..q[2] : ~IsSpace(rule[k])
                  /\ (q[1] = 1 \/ IsSpace(rule[q[1] - 1]))
                  /\ (q[2] = Len(rule) \/ IsSpace(rule[q[2] + 1])) } }

\* term occurs in s as a substring, letter case ignored.
OccursIgnoringCase(term, s) ==
    \E off \in 0..Len(s) :
        /\ off + Len(term) <= Len(s)
        /\ \A k \in 1..Len(term) : casefold_char(s[off + k]) = casefold_char(term[k])

\* The filters, as the properties state them.
ByRequestedAuthor(p) == SameIgnoringCase(p.account_handle, account_handle)
InsideWindow(p) ==
    start_date <= LocalDay(p.created_at_utc) /\ LocalDay(p.created_at_utc) <= end_date
MatchesRule(p) ==
    /\ TermsOf(keyword) # {}
    /\ \A term \in TermsOf(keyword) :
           OccursIgnoringCase(term, p.text \o <<"\n">> \o p.quoted_text)

\* The loop has just taken a post of the page in hand.
TookPost == pc = "loop" /\ post_index >= 1

-----------------------------------------------------------------------------
(* What the history variables record *)

\* The local date of the post is before start_date.
IsOlder(p) == LocalDay(p.created_at_utc) < start_date

\* The post is by the requested account, its tweet id is not among those
\* met before, it is no reply, and its local date is before start_date.
CountsAsOlder(p, met_before) ==
    /\ ByRequestedAuthor(p)
    /\ p.tweet_id \notin met_before
    /\ ~Truthy(p.in_reply_to_status_id)
    /\ IsOlder(p)

NoCall == [outcome |-> "none", message |-> ""]

-----------------------------------------------------------------------------
(* The generator *)

\* An absent number: None for the rate-limit fields, a header that is
\* missing or not all digits, no wait.
NoNumber == -1

\* No _get_json_with_retry call is modelled.
NoResponse == [status |-> 0, limit |-> NoNumber, remaining |-> NoNumber,
               reset |-> NoNumber, at |-> 0, attempt |-> 0, rebuilt |-> FALSE,
               body |-> <<>>]
NoResult == [kind |-> "none", status |-> 0, text |-> <<>>, cause |-> None]
NoClient ==
    /\ max_retries = 0
    /\ attempt = 0
    /\ last_error = None
    /\ rate_limit_limit = NoNumber
    /\ rate_limit_remaining = NoNumber
    /\ rate_limit_reset = NoNumber
    /\ transaction_context = None
    /\ now = 0
    /\ client_pc = "none"
    /\ result = NoResult
    /\ http_requests = 0
    /\ stamped = FALSE
    /\ last_response = NoResponse
    /\ retryable_attempts = 0
    /\ network_error_seen = None
    /\ last_wait = NoNumber
    /\ slept_since_response = 0
    /\ rebuilds = 0

\* A header that is not in the response.
NoHeader == <<None>>

RateLimitFields == {"limit", "remaining", "reset"}

\* No _update_rate_limit_state call is modelled.
NoRateLimit ==
    /\ rl_state = [f \in RateLimitFields |-> NoNumber]
    /\ rl_before = [f \in RateLimitFields |-> NoNumber]
    /\ rl_headers = [f \in RateLimitFields |-> NoHeader]

\* No verify_credentials call is modelled.
NoVerify ==
    /\ verify_pc = "none"
    /\ ct0 = None
    /\ verify_result = FALSE
    /\ verify_requests = <<>>
    /\ verify_outcomes = <<>>

\* A cookie file that does not exist.
MissingFile == [kind |-> "missing", jar |-> <<>>]

\* load_cookies has not run; nothing returned or raised yet.
NotLoaded == [kind |-> "not loaded", jar |-> <<>>]
NoSessionResult == [kind |-> "none", jar |-> <<>>, error |-> ""]

\* No SessionManager call is modelled.
NoSession ==
    /\ sm_pc = "none"
    /\ sm_entry = "none"
    /\ cookie_file = MissingFile
    /\ sm_loaded = NotLoaded
    /\ sm_cookies = <<>>
    /\ sm_result = NoSessionResult
    /\ sm_logins = 0
    /\ sm_probes = <<>>
    /\ sm_saved = <<>>
    /\ cookie_file_before = MissingFile

\* A generate_transaction_id call that has not been made.
NoTxnCall ==
    [made |-> FALSE, method |-> "", path |-> "", time_now |-> NoNumber,
     random_num |-> NoNumber, id |-> <<>>]

\* No generate_transaction_id call is modelled.
NoTxn ==
    /\ txn_clock = 0
    /\ txn_first = NoTxnCall
    /\ txn_second = NoTxnCall

\* No header has been built.
NoInputs ==
    [context_before |-> None, outcome |-> "none", generated |-> FALSE,
     outcome_again |-> "none", regenerated |-> FALSE]

\* No stamping is modelled.
NoStamp ==
    /\ st_pc = "none"
    /\ st_context = None
    /\ st_generation = 0
    /\ st_stamped_by = 0
    /\ st_stale = {}
    /\ st_inputs = NoInputs
    /\ st_fetches = 0
    /\ st_response = "none"
    /\ st_last_build = "none"

\* No payload is parsed.
NoParser ==
    /\ parser_input = <<>>
    /\ parser_output = <<>>

\* No command line is given.
NoInput ==
    [accounts_mode |-> FALSE, start |-> "", end |-> "", cookies_pool_file |-> FALSE,
     accounts_file |-> <<>>, keys_file |-> <<>>]

\* main is not running.
NoMain ==
    /\ main_pc = "none"
    /\ main_input = NoInput
    /\ main_exit = -1
    /\ main_raised = None
    /\ main_effects = <<>>

\* No run of main is modelled for its clients.
NoLifecycle ==
    /\ lc_pc = "none"
    /\ lc_pairs_left = 0
    /\ lc_client = 0
    /\ lc_crawl_client = 0
    /\ lc_closed = {}
    /\ lc_writer_closed = FALSE
    /\ lc_requests = {}
    /\ lc_end = ""
    /\ lc_error_records = 0

\* No backoff call is made.
NoBackoffInput == [attempt |-> 0, retry_after |-> <<None>>, kind |-> "", now |-> 0]

NoBackoff ==
    /\ bo_input = NoBackoffInput
    /\ bo_slept = -1
    /\ bo_returned = -1

\* None of the parts modelled on their own is running.
NoAux ==
    /\ NoRateLimit
    /\ NoVerify
    /\ NoSession
    /\ NoTxn
    /\ NoStamp
    /\ NoParser
    /\ NoMain
    /\ NoLifecycle
    /\ NoBackoff

\* main() is not running.
NoDriver ==
    /\ driver_pc = "none"
    /\ account_index = 0
    /\ keyword_index = 0
    /\ row_count = 0
    /\ total_rows = 0
    /\ cookies = 0
    /\ client_jar = 0
    /\ output = <<>>
    /\ crawl_log = <<>>
    /\ refresh_log = <<>>

Init ==
    /\ NoClient
    /\ NoDriver
    /\ NoAux
    /\ account_handle = Accounts[1]
    /\ keyword \in Keywords
    /\ max_empty_pages \in MaxEmptyPagesValues
    /\ seen_tweet_ids = {}
    /\ seen_cursors = {}
    /\ cursor = None
    /\ empty_page_streak = 0
    /\ page_index = 0
    /\ pc = "request"
    /\ page_len = 0
    /\ post_index = 0
    /\ post = NoPost
    /\ page_next_cursor = None
    /\ reached_older_posts = FALSE
    /\ yielded = <<>>
    /\ sources = <<>>
    /\ requests = <<>>
    /\ last_call = NoCall
    /\ page_has_older = FALSE
    /\ page_counted_older = FALSE

\* The head of one turn of `while True`: search_account_keyword returns a
\* payload that parses to a page of n_posts posts and cursor next_cursor.
SearchReturnsPage(n_posts, next_cursor) ==
    /\ pc = "request"
    /\ page_index' = page_index + 1
    /\ requests' = Append(requests, cursor)
    /\ last_call' = [outcome |-> "page", message |-> ""]
    /\ empty_page_streak' = IF n_posts # 0 THEN 0 ELSE empty_page_streak + 1
    /\ page_len' = n_posts
    /\ post_index' = 0
    /\ page_next_cursor' = next_cursor
    /\ reached_older_posts' = FALSE
    /\ page_has_older' = FALSE
    /\ page_counted_older' = FALSE
    /\ pc' = IF empty_and_last(n_posts, next_cursor) THEN "returned" ELSE "loop"
    /\ UNCHANGED <<aux_vars, client_vars, driver_vars, account_handle, keyword, max_empty_pages, seen_tweet_ids, seen_cursors, cursor, post,
                   yielded, sources>>

\* A generator without `except AuthenticationError: raise`: the error is
\* handled like any other exception.
SearchAuthenticationErrorAsRecord ==
    /\ pc = "request"
    /\ page_index' = page_index + 1
    /\ requests' = Append(requests, cursor)
    /\ last_call' = [outcome |-> "AuthenticationError", message |-> "auth"]
    /\ yielded' = Append(yielded, _error_record(account_handle, keyword, "auth"))
    /\ sources' = Append(sources, NoPost)
    /\ pc' = "returned"
    /\ UNCHANGED <<aux_vars, client_vars, driver_vars, account_handle, keyword, max_empty_pages, seen_tweet_ids, seen_cursors, cursor,
                   empty_page_streak,
                   page_len, post_index, post, page_next_cursor, reached_older_posts,
                   page_has_older, page_counted_older>>

\* search_account_keyword raises AuthenticationError: re-raised to the caller.
SearchRaisesAuthenticationError ==
    /\ pc = "request"
    /\ page_index' = page_index + 1
    /\ requests' = Append(requests, cursor)
    /\ last_call' = [outcome |-> "AuthenticationError", message |-> "auth"]
    /\ pc' = "raised"
    /\ UNCHANGED <<aux_vars, client_vars, driver_vars, account_handle, keyword, max_empty_pages, seen_tweet_ids, seen_cursors, cursor,
                   empty_page_streak,
                   page_len, post_index, post, page_next_cursor, reached_older_posts,
                   yielded, sources, page_has_older, page_counted_older>>

\* search_account_keyword raises any other exception with str(exc) = message.
SearchRaisesException(message) ==
    /\ pc = "request"
    /\ page_index' = page_index + 1
    /\ requests' = Append(requests, cursor)
    /\ last_call' = [outcome |-> "Exception", message |-> message]
    /\ yielded' = Append(yielded, _error_record(account_handle, keyword, message))
    /\ sources' = Append(sources, NoPost)
    /\ pc' = "returned"
    /\ UNCHANGED <<aux_vars, client_vars, driver_vars, account_handle, keyword, max_empty_pages, seen_tweet_ids, seen_cursors, cursor,
                   empty_page_streak,
                   page_len, post_index, post, page_next_cursor, reached_older_posts,
                   page_has_older, page_counted_older>>

\* One turn of `for post in page.posts`.
ProcessPost(p) ==
    LET skipped_early == other_author(p) \/ already_seen(p.tweet_id, seen_tweet_ids)
        out_of_range == ~in_date_range(p.created_at_utc, start_date, end_date)
        emit == /\ ~skipped_early
                /\ ~is_reply(p)
                /\ ~out_of_range
                /\ _keyword_hit(keyword, p.text, p.quoted_text)
    IN  /\ pc = "loop"
        /\ post_index < page_len
        /\ post_index' = post_index + 1
        /\ post' = p
        /\ seen_tweet_ids' = IF skipped_early
                             THEN seen_tweet_ids
                             ELSE seen_tweet_ids \cup {p.tweet_id}
        /\ reached_older_posts' =
               IF ~skipped_early /\ ~is_reply(p) /\ out_of_range /\ older_than_start(p)
               THEN TRUE
               ELSE reached_older_posts
        /\ yielded' = IF emit THEN Append(yielded, success_record(p)) ELSE yielded
        /\ sources' = IF emit THEN Append(sources, p) ELSE sources
        /\ page_has_older' = (page_has_older \/ IsOlder(p))
        /\ page_counted_older' = (page_counted_older \/ CountsAsOlder(p, seen_tweet_ids))
        /\ UNCHANGED <<aux_vars, client_vars, driver_vars, account_handle, keyword, max_empty_pages, seen_cursors, cursor, empty_page_streak,
                       page_index, pc,
                       page_len, page_next_cursor, requests, last_call>>

\* After the last post of the page: stop, or move on to the next cursor.
EndOfPage ==
    /\ pc = "loop"
    /\ post_index = page_len
    /\ IF \/ stop_on_older(reached_older_posts)
          \/ streak_limit_reached(empty_page_streak)
          \/ ~Truthy(page_next_cursor)
          \/ cursor_repeated(page_next_cursor, cursor, seen_cursors)
       THEN /\ pc' = "returned"
            /\ UNCHANGED <<cursor, seen_cursors>>
       ELSE /\ pc' = "request"
            /\ seen_cursors' = seen_cursors \cup {page_next_cursor}
            /\ cursor' = cursor_of_next_request(page_next_cursor, cursor)
    /\ UNCHANGED <<aux_vars, client_vars, driver_vars, account_handle, keyword, max_empty_pages, seen_tweet_ids, empty_page_streak, page_index,
                   page_len,
                   post_index, post, page_next_cursor, reached_older_posts, yielded,
                   sources, requests, last_call, page_has_older, page_counted_older>>

Next ==
    \/ \E n_posts \in PageSizes, next_cursor \in CursorValues :
           SearchReturnsPage(n_posts, next_cursor)
    \/ SearchRaisesAuthenticationError
    \/ \E message \in Messages : SearchRaisesException(message)
    \/ \E p \in Catalogue : ProcessPost(p)
    \/ EndOfPage

Spec == Init /\ [][Next]_vars

-----------------------------------------------------------------------------
(* C1 .. C10: the crawl loop *)

\* C1: within one crawl_account_keyword invocation no two records yielded
\* from posts come from the same tweet id, and their post_url values are
\* pairwise distinct, also when a tweet comes back on a later page or twice
\* on one page.
C1_DistinctTweets ==
    \A i, j \in DOMAIN yielded :
        (i < j /\ FromPost(i) /\ FromPost(j))
            => /\ sources[i].tweet_id # sources[j].tweet_id
               /\ yielded[i].post_url # yielded[j].post_url

\* The post that was yielded on page 1 came back on page 2 and was not
\* yielded again.
C1_Witness ==
    /\ TookPost
    /\ page_index = 2
    /\ Len(yielded) = 1
    /\ FromPost(1)
    /\ post = sources[1]

\* C2: within one invocation no cursor value is passed to
\* search_account_keyword more than once, whatever cursors the server
\* returns.
C2_CursorOnce ==
    \A i, j \in DOMAIN requests : i < j => requests[i] # requests[j]

\* The third page came with the cursor that fetched the second page, which
\* is not the cursor in use; the crawl stopped on it although neither an
\* older post nor the empty-page limit asked for a stop.
C2_Witness ==
    /\ pc = "returned"
    /\ last_call.outcome = "page"
    /\ Len(requests) = 3
    /\ page_next_cursor = requests[2]
    /\ page_next_cursor # cursor
    /\ post_index = page_len
    /\ ~reached_older_posts
    /\ empty_page_streak < max_empty_pages

\* C3: every record yielded from a post comes from a post whose creation
\* instant, taken in the configured timezone, has a local date d with
\* start_date <= d <= end_date; the post_time of the record denotes that
\* same instant.
C3_InsideWindow ==
    \A i \in DOMAIN yielded :
        FromPost(i)
            => /\ InsideWindow(sources[i])
               /\ InstantOf(yielded[i].post_time) = sources[i].created_at_utc

\* A post of the first local hour of start_date (still the day before in
\* UTC) was yielded, and the loop has then taken a post of the first local
\* hour after end_date (still end_date in UTC) that passes every other
\* filter, and yielded nothing for it.
C3_Witness ==
    /\ TookPost
    /\ Len(yielded) = 1
    /\ FromPost(1)
    /\ LocalDay(sources[1].created_at_utc) = start_date
    /\ sources[1].created_at_utc \div HoursPerDay < start_date
    /\ LocalDay(post.created_at_utc) = end_date + 1
    /\ post.created_at_utc \div HoursPerDay = end_date
    /\ ByRequestedAuthor(post)
    /\ ~Truthy(post.in_reply_to_status_id)
    /\ MatchesRule(post)
    /\ post.tweet_id # sources[1].tweet_id

\* C4: a post is yielded only if the rule has at least one term and every
\* whitespace-separated term of the rule occurs, letter case ignored, as a
\* substring of the post text joined with its quoted text.
C4_AllTerms ==
    \A i \in DOMAIN yielded :
        FromPost(i)
            => /\ TermsOf(keyword) # {}
               /\ \A term \in TermsOf(keyword) :
                      OccursIgnoringCase(
                          term, yielded[i].text \o <<"\n">> \o yielded[i].quoted_text)

\* A post that holds one term in its text and the other in its quoted text
\* was yielded, and the loop has then taken a post that holds one term of
\* the rule but not the other, passes every other filter, and yielded
\* nothing for it.
C4_Witness ==
    /\ TookPost
    /\ Len(yielded) = 1
    /\ FromPost(1)
    /\ yielded[1].quoted_text # <<>>
    /\ \E term \in TermsOf(keyword) : ~OccursIgnoringCase(term, yielded[1].text)
    /\ \E term \in TermsOf(keyword) :
           OccursIgnoringCase(term, post.text \o <<"\n">> \o post.quoted_text)
    /\ ~MatchesRule(post)
    /\ ByRequestedAuthor(post)
    /\ ~Truthy(post.in_reply_to_status_id)
    /\ InsideWindow(post)
    /\ post.tweet_id # sources[1].tweet_id

\* C5: no record is yielded for a post that has an in_reply_to_status_id
\* (a non-empty one: a reply), even when the post is by the requested
\* account, inside the date window and matches the keyword.
C5_NoReplies ==
    \A i \in DOMAIN yielded :
        FromPost(i) => ~Truthy(sources[i].in_reply_to_status_id)

\* The first post the loop took is a reply that passes every other filter:
\* nothing was yielded for it.
C5_Witness ==
    /\ TookPost
    /\ page_index = 1
    /\ post_index = 1
    /\ Truthy(post.in_reply_to_status_id)
    /\ ByRequestedAuthor(post)
    /\ InsideWindow(post)
    /\ MatchesRule(post)
    /\ yielded = <<>>

\* C6: every record yielded has account equal to the requested handle, and
\* every record yielded from a post comes from a post whose author handle
\* equals the requested handle with letter case ignored.
C6_RequestedAuthor ==
    \A i \in DOMAIN yielded :
        /\ yielded[i].account = account_handle
        /\ FromPost(i) => ByRequestedAuthor(sources[i])

\* A post whose author handle differs from the requested one in letter case
\* only was yielded, and the loop has then taken a post by another author
\* that passes every other filter, and yielded nothing for it.
C6_Witness ==
    /\ TookPost
    /\ Len(yielded) = 1
    /\ FromPost(1)
    /\ sources[1].account_handle # account_handle
    /\ ~ByRequestedAuthor(post)
    /\ ~Truthy(post.in_reply_to_status_id)
    /\ InsideWindow(post)
    /\ MatchesRule(post)
    /\ post.tweet_id \notin seen_tweet_ids

\* The latest search call returned a page (it raised nothing).
PageInHand == last_call.outcome = "page"

\* No record yielded so far is an error record.
NoErrorRecord == \A i \in DOMAIN yielded : FromPost(i)

\* The generator is back at the head of `while True`: the next thing it
\* does is a search request.
AboutToRequest == pc = "request"

\* C7 as claimed: if a fetched page contains any post whose local date is
\* earlier than start_date, the crawl stops after that page and issues no
\* further search request.
C7_AnyOlderPostStops == page_has_older => ~AboutToRequest

\* C7 as the code has it: if a fetched page contains a post by the
\* requested account, with a tweet id not met before among the posts by
\* that account, that is no reply and whose local date is earlier than
\* start_date, the crawl stops after that page and issues no further search
\* request, whatever next_cursor the page carries.
C7_CountedOlderPostStops == page_counted_older => ~AboutToRequest

\* The crawl has stopped after a page that holds such an older post and
\* carries a fresh cursor, with the empty-page limit not reached.
C7_Witness ==
    /\ pc = "returned"
    /\ PageInHand
    /\ page_counted_older
    /\ post_index = page_len
    /\ Truthy(page_next_cursor)
    /\ page_next_cursor \notin Range(requests)
    /\ empty_page_streak < max_empty_pages

\* Every page so far came without posts and with a cursor never met
\* before, and the crawl has stopped.
StoppedOnEmptyFreshPages ==
    /\ pc = "returned"
    /\ PageInHand
    /\ empty_page_streak = Len(requests)
    /\ Truthy(page_next_cursor)
    /\ page_next_cursor \notin Range(requests)

C8_Step ==
    /\ (requests' # requests /\ last_call'.outcome = "page")
           => empty_page_streak' = IF page_len' > 0 THEN 0 ELSE empty_page_streak + 1
    /\ requests' = requests => empty_page_streak' = empty_page_streak
    /\ requests' # requests => empty_page_streak < max_empty_pages
    /\ StoppedOnEmptyFreshPages'
           => Len(requests') = max_empty_pages /\ yielded' = <<>>

\* C8: empty_page_streak is 0 after a page with posts and grows by one per
\* page without posts; no request is issued once it has reached
\* max_empty_pages; when the server returns only pages without posts and
\* with ever-fresh cursors, the crawl issues exactly max_empty_pages
\* requests and yields no record.
C8_EmptyPageStreak == [][C8_Step]_vars

\* Three pages without posts, each with a fresh cursor: the crawl has
\* stopped after the third with nothing yielded.
C8_Witness ==
    /\ max_empty_pages = DefaultMaxEmptyPages
    /\ StoppedOnEmptyFreshPages
    /\ Len(requests) = max_empty_pages
    /\ empty_page_streak = max_empty_pages
    /\ Cardinality(Range(requests) \cup {page_next_cursor}) = max_empty_pages + 1
    /\ yielded = <<>>

\* The cursor of the page in hand is absent, or it is the cursor that
\* fetched this page or an earlier one.
StaleCursor == ~Truthy(page_next_cursor) \/ page_next_cursor \in Range(requests)

\* Every page so far carried the same cursor.
SameCursorOnEveryPage ==
    /\ PageInHand
    /\ Truthy(page_next_cursor)
    /\ \A i \in 2..Len(requests) : requests[i] = page_next_cursor

C9_StopsOnStaleCursor ==
    (PageInHand /\ StaleCursor) => (~AboutToRequest /\ NoErrorRecord)

\* C9 as claimed: a page whose next_cursor is absent, equal to the cursor
\* of its own request or seen earlier stops the crawl with no further
\* request and no error record; a server that returns the same cursor on
\* every page is stopped within at most 2 requests with zero records.
C9_SameCursorZeroRecords ==
    /\ C9_StopsOnStaleCursor
    /\ SameCursorOnEveryPage
           => /\ Len(requests) <= 2
              /\ Len(requests) = 2 => ~AboutToRequest
              /\ pc = "returned" => yielded = <<>>

\* C9 as the code has it: the same, except that a server that returns the
\* same cursor on every page is stopped within at most 2 requests with no
\* error record, and with zero records when its pages carry no posts.
C9_SameCursorTwoRequests ==
    /\ C9_StopsOnStaleCursor
    /\ SameCursorOnEveryPage
           => /\ Len(requests) <= 2
              /\ Len(requests) = 2 => ~AboutToRequest
              /\ NoErrorRecord
              /\ (pc = "returned" /\ empty_page_streak = Len(requests)) => yielded = <<>>

\* Two pages without posts, the second with the cursor that fetched it: the
\* crawl has stopped there with nothing yielded, the empty-page limit not
\* reached.
C9_Witness ==
    /\ pc = "returned"
    /\ SameCursorOnEveryPage
    /\ Len(requests) = 2
    /\ empty_page_streak = 2
    /\ empty_page_streak < max_empty_pages
    /\ yielded = <<>>

\* The error record the crawl is to yield for an exception message.
ExpectedErrorRecord(message) ==
    [ account |-> account_handle, keyword |-> keyword, error |-> message,
      post_time |-> "", text |-> "", post_url |-> "", views |-> "", likes |-> "",
      reposts |-> "", replies |-> "", quoted_text |-> "" ]

C10_Step ==
    /\ last_call'.outcome = "Exception"
           => /\ yielded' = Append(yielded, ExpectedErrorRecord(last_call'.message))
              /\ NoErrorRecord
              /\ pc' = "returned"
    /\ last_call.outcome = "Exception" => requests' = requests

\* C10: when search_account_keyword raises an exception other than
\* AuthenticationError, the crawl yields exactly one error record (error =
\* the message, account and keyword set, every other field empty), that
\* record is the last one yielded, the records yielded before are kept, and
\* no further request is issued.
C10_ErrorRecord == [][C10_Step]_vars

\* The second request raised "boom" after the first page had yielded a
\* record: the error record follows that record.
C10_Witness ==
    /\ last_call.outcome = "Exception"
    /\ last_call.message = "boom"
    /\ Len(requests) = 2
    /\ Len(yielded) = 2
    /\ FromPost(1)
    /\ ~FromPost(2)
    /\ yielded[2].error = "boom"

C11_Step ==
    /\ last_call'.outcome = "AuthenticationError"
           => /\ pc' = "raised"
              /\ yielded' = yielded
    /\ last_call.outcome = "AuthenticationError"
           => /\ requests' = requests
              /\ yielded' = yielded

\* C11: when search_account_keyword raises AuthenticationError on any page,
\* the generator ends by raising it to its caller, yields no record for it
\* (the records yielded before stay as they are), and issues no further
\* request.
C11_ReRaised == [][C11_Step]_vars

\* The second request raised AuthenticationError after the first page had
\* yielded a record: the generator has raised and that record is all it
\* yielded.
C11_Witness ==
    /\ pc = "raised"
    /\ last_call.outcome = "AuthenticationError"
    /\ Len(requests) = 2
    /\ Len(yielded) = 1
    /\ FromPost(1)

-----------------------------------------------------------------------------
(* main() of run.py: the loops over accounts and keywords, with             *)
(* _crawl_keyword writing every row the generator yields.                   *)

\* The rules of the keys file, in file order.
KeywordList == << <<"A", "b", " ", "c">>, <<"c">> >>

\* What the server may return while main() runs: a post by each account
\* that matches both rules, at most this many posts on a page, two cursors,
\* one exception message.
DriverMaxPostsPerPage == 1
DriverPageSizes == 0..DriverMaxPostsPerPage
DriverCatalogue ==
    { ParsedPost("101", <<"N", "b">>, 16, <<"a", "B", "c">>, <<>>, None),
      ParsedPost("101", <<"x", "y">>, 16, <<"a", "B", "c">>, <<>>, None) }
DriverCursorValues == {None, "C1"}
DriverMessages == {"boom"}

\* f"authentication_failed_after_refresh: {exc}"
authentication_failed_error(exc) == "authentication_failed_after_refresh: " \o exc

_empty_error_record(account, kw, error) ==
    [ account |-> account,
      keyword |-> kw,
      post_time |-> "",
      text |-> "",
      post_url |-> "",
      views |-> "",
      likes |-> "",
      reposts |-> "",
      replies |-> "",
      quoted_text |-> "",
      error |-> error ]

\* The loops with the keywords outside and the accounts inside.
next_pair_keywords_outer(a, k) ==
    IF a < Len(Accounts) THEN <<a + 1, k>>
    ELSE IF k < Len(KeywordList) THEN <<1, k + 1>>
    ELSE <<0, 0>>

\* The pair after (a, k) in `for account in accounts: for keyword in
\* keywords`; <<0, 0>> after the last one.
next_pair(a, k) ==
    IF k < Len(KeywordList) THEN <<a, k + 1>>
    ELSE IF a < Len(Accounts) THEN <<a + 1, 1>>
    ELSE <<0, 0>>

\* crawler.crawl_account_keyword(account=..., keyword=...) of a crawler
\* built with the default max_empty_pages: a generator with fresh locals.
StartGenerator(a, k) ==
    /\ account_handle' = Accounts[a]
    /\ keyword' = KeywordList[k]
    /\ max_empty_pages' = DefaultMaxEmptyPages
    /\ seen_tweet_ids' = {}
    /\ seen_cursors' = {}
    /\ cursor' = None
    /\ empty_page_streak' = 0
    /\ page_index' = 0
    /\ pc' = "request"
    /\ page_len' = 0
    /\ post_index' = 0
    /\ post' = NoPost
    /\ page_next_cursor' = None
    /\ reached_older_posts' = FALSE
    /\ yielded' = <<>>
    /\ sources' = <<>>
    /\ requests' = <<>>
    /\ last_call' = NoCall
    /\ page_has_older' = FALSE
    /\ page_counted_older' = FALSE

\* The generator runs only while _crawl_keyword waits for its next row.
GeneratorRuns == driver_pc \in {"first", "retry"} /\ row_count = Len(yielded)

\* The body of `for row in crawler.crawl_account_keyword(...)`.
WriteRow ==
    /\ driver_pc \in {"first", "retry"}
    /\ row_count < Len(yielded)
    /\ output' = Append(output, yielded[row_count + 1])
    /\ row_count' = row_count + 1
    /\ UNCHANGED <<aux_vars, client_vars, crawl_vars, driver_pc, account_index, keyword_index,
                   total_rows, cookies, client_jar, crawl_log, refresh_log>>

\* The next turn of the loops: the first _crawl_keyword call of the next
\* pair, or the end of the loops.
GoToNextPair ==
    LET nxt == next_pair(account_index, keyword_index)
    IN  /\ row_count' = 0
        /\ UNCHANGED <<aux_vars, client_vars, cookies, client_jar, refresh_log>>
        /\ IF nxt = <<0, 0>>
           THEN /\ driver_pc' = "done"
                /\ UNCHANGED <<crawl_vars, account_index, keyword_index, crawl_log>>
           ELSE /\ driver_pc' = "first"
                /\ account_index' = nxt[1]
                /\ keyword_index' = nxt[2]
                /\ crawl_log' = Append(crawl_log, [account |-> nxt[1], keyword |-> nxt[2],
                                                   jar |-> client_jar])
                /\ StartGenerator(nxt[1], nxt[2])

\* _crawl_keyword returns row_count: the generator is exhausted.
CrawlKeywordReturns ==
    /\ driver_pc \in {"first", "retry"}
    /\ pc = "returned"
    /\ row_count = Len(yielded)
    /\ total_rows' = total_rows + row_count
    /\ output' = output
    /\ GoToNextPair

\* The first call of the pair raised AuthenticationError and refresh_cookies
\* returns a jar: the client is closed, a new one is built from that jar,
\* and _crawl_keyword is called again for the same pair.
RefreshAndRetry ==
    /\ driver_pc = "first"
    /\ pc = "raised"
    /\ refresh_log' = Append(refresh_log, [account |-> account_index,
                                           keyword |-> keyword_index])
    /\ cookies' = cookies + 1
    /\ client_jar' = cookies'
    /\ driver_pc' = "retry"
    /\ row_count' = 0
    /\ crawl_log' = Append(crawl_log, [account |-> account_index,
                                       keyword |-> keyword_index, jar |-> client_jar'])
    /\ StartGenerator(account_index, keyword_index)
    /\ UNCHANGED <<aux_vars, client_vars, account_index, keyword_index, total_rows, output>>

\* The first call of the pair raised AuthenticationError and refresh_cookies
\* raises (login timed out, or the probe failed without the core cookies):
\* the exception leaves main() through `finally`.
RefreshRaises ==
    /\ driver_pc = "first"
    /\ pc = "raised"
    /\ refresh_log' = Append(refresh_log, [account |-> account_index,
                                           keyword |-> keyword_index])
    /\ driver_pc' = "aborted"
    /\ UNCHANGED <<aux_vars, client_vars, crawl_vars, account_index, keyword_index, row_count,
                   total_rows, cookies, client_jar, output, crawl_log>>

\* A handler that swallows the second AuthenticationError.
RetryRaisesSilently ==
    /\ driver_pc = "retry"
    /\ pc = "raised"
    /\ output' = output
    /\ UNCHANGED total_rows
    /\ GoToNextPair

\* The second call of the pair raised AuthenticationError too: one error
\* record is written and the loops go on.
RetryRaises ==
    /\ driver_pc = "retry"
    /\ pc = "raised"
    /\ output' = Append(output,
           _empty_error_record(Accounts[account_index], KeywordList[keyword_index],
                               authentication_failed_error(last_call.message)))
    /\ UNCHANGED total_rows
    /\ GoToNextPair

\* main() from the first turn of the loops: jar 1 came from ensure_cookies
\* and the client was built from it.
DriverInit ==
    /\ NoClient
    /\ NoAux
    /\ driver_pc = "first"
    /\ account_index = 1
    /\ keyword_index = 1
    /\ row_count = 0
    /\ total_rows = 0
    /\ cookies = 1
    /\ client_jar = 1
    /\ output = <<>>
    /\ crawl_log = << [account |-> 1, keyword |-> 1, jar |-> 1] >>
    /\ refresh_log = <<>>
    /\ account_handle = Accounts[1]
    /\ keyword = KeywordList[1]
    /\ max_empty_pages = DefaultMaxEmptyPages
    /\ seen_tweet_ids = {}
    /\ seen_cursors = {}
    /\ cursor = None
    /\ empty_page_streak = 0
    /\ page_index = 0
    /\ pc = "request"
    /\ page_len = 0
    /\ post_index = 0
    /\ post = NoPost
    /\ page_next_cursor = None
    /\ reached_older_posts = FALSE
    /\ yielded = <<>>
    /\ sources = <<>>
    /\ requests = <<>>
    /\ last_call = NoCall
    /\ page_has_older = FALSE
    /\ page_counted_older = FALSE

DriverNext ==
    \/ \E n_posts \in DriverPageSizes, next_cursor \in DriverCursorValues :
           GeneratorRuns /\ SearchReturnsPage(n_posts, next_cursor)
    \/ GeneratorRuns /\ SearchRaisesAuthenticationError
    \/ \E message \in DriverMessages : GeneratorRuns /\ SearchRaisesException(message)
    \/ \E p \in DriverCatalogue : GeneratorRuns /\ ProcessPost(p)
    \/ GeneratorRuns /\ EndOfPage
    \/ WriteRow
    \/ CrawlKeywordReturns
    \/ RefreshAndRetry
    \/ RefreshRaises
    \/ RetryRaises

DriverSpec == DriverInit /\ [][DriverNext]_vars

-----------------------------------------------------------------------------
(* C12 .. C14: the driver *)

\* The pair main() is at.
CurrentPair == <<account_index, keyword_index>>

AllPairs == (1..Len(Accounts)) \X (1..Len(KeywordList))

\* The entries of a log that belong to a pair.
EntriesOf(log, pr) ==
    { i \in DOMAIN log : log[i].account = pr[1] /\ log[i].keyword = pr[2] }

\* The rows of the output that carry the account and the rule of a pair.
RowsOf(pr) ==
    { i \in DOMAIN output :
        output[i].account = Accounts[pr[1]] /\ output[i].keyword = KeywordList[pr[2]] }

StartsWith(str, prefix) ==
    Len(str) >= Len(prefix) /\ SubSeq(str, 1, Len(prefix)) = prefix

AfterRefreshPrefix == "authentication_failed_after_refresh: "

\* The first (second) _crawl_keyword call of the pair has raised
\* AuthenticationError and main() has not handled it yet.
FirstCrawlRaised == driver_pc = "first" /\ pc = "raised"
RetryCrawlRaised == driver_pc = "retry" /\ pc = "raised"

\* The second call of the pair has run its generator to the end and no
\* search call of it raised.
RetrySucceeded == driver_pc = "retry" /\ pc = "returned" /\ last_call.outcome # "Exception"

\* The output only grows at its end.
OutputKept == Len(output') >= Len(output) /\ SubSeq(output', 1, Len(output)) = output

C12_Counts ==
    \A pr \in AllPairs :
        /\ Cardinality(EntriesOf(refresh_log, pr)) <= 1
        /\ Cardinality(EntriesOf(crawl_log, pr)) <= 2
        /\ \A i, j \in EntriesOf(crawl_log, pr) :
               i < j => /\ j = i + 1
                        /\ crawl_log[i].jar # crawl_log[j].jar
                        /\ EntriesOf(refresh_log, pr) # {}
        /\ Cardinality({ i \in RowsOf(pr) : StartsWith(output[i].error, AfterRefreshPrefix) }) <= 1

C12_Step ==
    /\ OutputKept
    /\ FirstCrawlRaised
           => /\ refresh_log' = Append(refresh_log, [account |-> account_index,
                                                      keyword |-> keyword_index])
              /\ output' = output
              /\ driver_pc' # "aborted"
                     => /\ driver_pc' = "retry"
                        /\ CurrentPair' = CurrentPair
                        /\ cookies' # cookies
                        /\ client_jar' = cookies'
                        /\ crawl_log' = Append(crawl_log, [account |-> account_index,
                                                            keyword |-> keyword_index,
                                                            jar |-> cookies'])
                        /\ pc' = "request"
    /\ ~FirstCrawlRaised => refresh_log' = refresh_log
    /\ RetryCrawlRaised
           => /\ Len(output') = Len(output) + 1
              /\ output'[Len(output')].account = Accounts[account_index]
              /\ output'[Len(output')].keyword = KeywordList[keyword_index]
              /\ StartsWith(output'[Len(output')].error, AfterRefreshPrefix)
              /\ driver_pc' \in {"first", "done"}
              /\ driver_pc' = "first" => CurrentPair' # CurrentPair
    /\ RetrySucceeded'
           => \A i \in RowsOf(CurrentPair)' : output'[i].error = ""

\* C12: when the first crawl of a pair raises AuthenticationError, the
\* driver calls refresh_cookies once and, with the jar it returns, builds a
\* new client and calls the crawl of the same pair once more; no pair is
\* refreshed twice or crawled more than twice.  When that second crawl
\* raises AuthenticationError, one record for the pair whose error starts
\* with "authentication_failed_after_refresh: " is written and the driver
\* leaves the pair without another refresh; when it ends without any
\* search call raising, no row of the pair carries an error.  The rows
\* written before are never changed.
C12_RefreshOnce == []C12_Counts /\ [][C12_Step]_vars

\* The first pair wrote a record without any refresh; the second pair was
\* refreshed and its second crawl wrote a record; the third pair was
\* refreshed and its second crawl raised again: its error record is the
\* third row, and the driver has moved on to the fourth pair.
C12_Witness ==
    /\ CurrentPair = <<2, 2>>
    /\ Len(refresh_log) = 2
    /\ EntriesOf(refresh_log, <<1, 2>>) = {1}
    /\ EntriesOf(refresh_log, <<2, 1>>) = {2}
    /\ Len(output) = 3
    /\ RowsOf(<<1, 1>>) = {1}
    /\ RowsOf(<<1, 2>>) = {2}
    /\ RowsOf(<<2, 1>>) = {3}
    /\ output[1].error = ""
    /\ output[2].error = ""
    /\ StartsWith(output[3].error, AfterRefreshPrefix)

\* C13: over a whole run, the successful records written for one pair have
\* pairwise distinct post_url, also when the pair is crawled a second time
\* after an AuthenticationError interrupted its first crawl.
C13_DistinctUrlsPerPair ==
    \A pr \in AllPairs :
        \A i, j \in RowsOf(pr) :
            (i < j /\ output[i].error = "" /\ output[j].error = "")
                => output[i].post_url # output[j].post_url

\* The number of a pair in the order accounts outside, keywords inside.
PairNumber(entry) == (entry.account - 1) * Len(KeywordList) + entry.keyword

\* The crawl in progress has yielded an error record for an exception of
\* its search call and _crawl_keyword has written it.
ErrorRecordWritten ==
    /\ driver_pc \in {"first", "retry"}
    /\ pc = "returned"
    /\ last_call.outcome = "Exception"
    /\ row_count = Len(yielded)

LastPair == account_index = Len(Accounts) /\ keyword_index = Len(KeywordList)

C14_Order ==
    /\ PairNumber(crawl_log[1]) = 1
    /\ \A i \in 1..(Len(crawl_log) - 1) :
           \/ PairNumber(crawl_log[i + 1]) = PairNumber(crawl_log[i]) + 1
           \/ /\ PairNumber(crawl_log[i + 1]) = PairNumber(crawl_log[i])
              /\ crawl_log[i + 1].account = crawl_log[i].account
    /\ \A i \in DOMAIN crawl_log : <<crawl_log[i].account, crawl_log[i].keyword>> \in AllPairs
    /\ driver_pc = "done"
           => \A pr \in AllPairs : EntriesOf(crawl_log, pr) # {}
    /\ driver_pc \notin {"done", "aborted"} => ENABLED DriverNext

C14_Step ==
    (ErrorRecordWritten \/ RetryCrawlRaised)
        => IF LastPair
           THEN driver_pc' = "done"
           ELSE /\ driver_pc' = "first"
                /\ Len(crawl_log') = Len(crawl_log) + 1
                /\ PairNumber(crawl_log'[Len(crawl_log')]) =
                       PairNumber(crawl_log[Len(crawl_log)]) + 1
                /\ pc' = "request"

\* C14: the pairs are crawled in the order accounts outside, keywords
\* inside, none skipped; a run that gets past the loops has crawled every
\* pair; after a crawl that ended in an error record, and after a second
\* crawl that raised AuthenticationError, the driver starts the crawl of
\* the next pair (or leaves the loops after the last pair), and it never
\* stops anywhere else than past the loops or in a refresh_cookies that
\* raised.
C14_EveryPair == []C14_Order /\ [][C14_Step]_vars

\* The run is past the loops; the crawl of the first pair ended in an error
\* record, the second pair ended in the record written after a refresh
\* that did not help, and the later pairs were crawled and wrote records.
C14_Witness ==
    /\ driver_pc = "done"
    /\ Len(output) = 4
    /\ output[1].error = "boom"
    /\ RowsOf(<<1, 1>>) = {1}
    /\ StartsWith(output[2].error, AfterRefreshPrefix)
    /\ RowsOf(<<1, 2>>) = {2}
    /\ RowsOf(<<2, 1>>) = {3}
    /\ output[3].error = ""
    /\ RowsOf(<<2, 2>>) = {4}
    /\ output[4].error = ""

-----------------------------------------------------------------------------
(* XProtocolClient._get_json_with_retry: the retry loop of one logical      *)
(* search request, with the rate-limit state and the backoff sleeps.        *)

\* src/config.py, with the environment variables unset.
DefaultMaxRetries == 3
ResetBufferSeconds == 2
MaxRateLimitWaitSeconds == 900
FallbackWaitSeconds == 180
ProactiveThreshold == 0

\* Literals of _sleep_backoff and of the error message.
RateLimitStepSeconds == 30
BackoffCapSeconds == 8
BodyExcerptLen == 300

Min(a, b) == IF a <= b THEN a ELSE b
Max(a, b) == IF a >= b THEN a ELSE b

\* The values self.max_retries may have: the positive ones up to the default.
MaxRetriesValues == 1..DefaultMaxRetries

\* time.time() when the call starts.
StartTime == 1000

\* The status codes the server may answer with.
Statuses == {200, 202, 400, 401, 403, 404, 429, 500}

\* x-rate-limit-limit and x-rate-limit-remaining of a response, as
\* _parse_int_header reads them: both missing, quota used up (with and
\* without the limit), quota left (with and without the limit).
QuotaHeaders ==
    { [limit |-> NoNumber, remaining |-> NoNumber],
      [limit |-> NoNumber, remaining |-> 0],
      [limit |-> 10, remaining |-> 0],
      [limit |-> NoNumber, remaining |-> 8],
      [limit |-> 10, remaining |-> 8] }

\* x-rate-limit-reset of a response, as seconds after the time the response
\* comes: in the past, within the first backoff sleep, soon, and around
\* MaxRateLimitWaitSeconds.
ResetOffsets == {-5, 1, 3, 900, 901}

\* response.text: short, exactly BodyExcerptLen characters, one more.
Bodies ==
    { [i \in 1..n |-> IF i = n THEN "z" ELSE "e"] :
        n \in {2, BodyExcerptLen, BodyExcerptLen + 1} }

\* The bodies worth telling apart for a status: the body is read only for
\* the statuses that end in "Request failed (...)", and a 404 stays with
\* the short one.
BodiesFor(status) ==
    IF status >= 400 /\ status < 500 /\ status \notin {401, 403, 404, 429}
    THEN Bodies
    ELSE { <<"e", "z">> }

\* str(exc) of a network exception.
NetworkErrors == {"timeout", "reset"}

\* The rate-limit state earlier calls may have left: unknown, exhausted
\* until 3 s from now, or with quota left.
InitialRateLimitStates ==
    { [limit |-> NoNumber, remaining |-> NoNumber, reset |-> NoNumber],
      [limit |-> 10, remaining |-> 0, reset |-> StartTime + 3],
      [limit |-> 10, remaining |-> 8, reset |-> StartTime + 3] }

\* How a build of the TransactionContext may end: built; given up with
\* `return False` (the context in hand is kept); an exception (the context
\* is set to None).
EnsureOutcomes == {"built", "failed", "raised"}

\* A forced rebuild is asked for after a 404 only.
RebuildsFor(status) == IF status = 404 THEN EnsureOutcomes ELSE {"built"}

\* The wait of _wait_for_rate_limit_pacing when it does wait.  The pacing
\* constants it reads are not set in src/config.py, so the wait is any of
\* these.
PacingWaits == {0, 1}

\* A backoff that forgets the reset buffer.
sleep_backoff_without_buffer(att, retry_after, kind, t) ==
    IF retry_after # NoNumber
    THEN Min(Max(1, retry_after - t), MaxRateLimitWaitSeconds)
    ELSE IF kind = "rate_limit"
         THEN Min(att * RateLimitStepSeconds, FallbackWaitSeconds)
         ELSE Min(2 ^ (att - 1), BackoffCapSeconds)

\* _sleep_backoff(attempt, retry_after=..., kind=...) called at time t: the
\* seconds it sleeps and returns.
_sleep_backoff(att, retry_after, kind, t) ==
    IF retry_after # NoNumber
    THEN Min(Max(1, retry_after - t + ResetBufferSeconds), MaxRateLimitWaitSeconds)
    ELSE IF kind = "rate_limit"
         THEN Min(att * RateLimitStepSeconds, FallbackWaitSeconds)
         ELSE Min(2 ^ (att - 1), BackoffCapSeconds)

\* A pacing that does not look at the limit.
wait_for_rate_limit_pacing_without_limit(limit, pacing) == pacing

\* _wait_for_rate_limit_pacing: nothing without a usable limit.
_wait_for_rate_limit_pacing(limit, pacing) ==
    IF limit = NoNumber \/ limit <= 0 THEN 0 ELSE pacing

\* A quota check that never waits.
wait_for_available_quota_never(limit, remaining, reset_ts, t, pacing) == 0

\* _wait_for_available_quota called at time t: the seconds it sleeps.
_wait_for_available_quota(limit, remaining, reset_ts, t, pacing) ==
    IF remaining = NoNumber \/ reset_ts = NoNumber THEN 0
    ELSE IF reset_ts <= t THEN 0
    ELSE IF remaining <= ProactiveThreshold
         THEN Min(Max(1, reset_ts - t + ResetBufferSeconds), MaxRateLimitWaitSeconds)
         ELSE _wait_for_rate_limit_pacing(limit, pacing)

\* A client that fetches the home page in every call of
\* _ensure_transaction_context.
transaction_context_fetches_always(ctx, force) == 1

\* How many times _ensure_transaction_context(force_refresh=force) fetches
\* the home page: not at all when it reuses the context in hand, once in
\* every other call, whatever the end of the build.
transaction_context_fetches(ctx, force) == IF ctx # None /\ ~force THEN 0 ELSE 1

\* _ensure_transaction_context(force_refresh=force): <<returned value, the
\* context afterwards>>.
_ensure_transaction_context(ctx, force, outcome) ==
    IF ctx # None /\ ~force THEN <<TRUE, ctx>>
    ELSE CASE outcome = "built" -> <<TRUE, "context">>
           [] outcome = "failed" -> <<FALSE, ctx>>
           [] OTHER -> <<FALSE, None>>

\* An id taken as produced whenever there is a context in the end.
next_transaction_id_unchecked(ctx, outcome, generated, outcome_again, regenerated) ==
    LET first == _ensure_transaction_context(ctx, FALSE, outcome)
        again == _ensure_transaction_context(first[2], TRUE, outcome_again)
    IN  IF ~first[1] THEN <<FALSE, first[2]>>
        ELSE IF generated THEN <<TRUE, first[2]>>
        ELSE IF ~again[1] THEN <<FALSE, again[2]>>
        ELSE <<TRUE, again[2]>>

\* _next_transaction_id: <<an id was produced, the context afterwards>>.
\* generated / regenerated: generate_transaction_id did not raise.
_next_transaction_id(ctx, outcome, generated, outcome_again, regenerated) ==
    LET first == _ensure_transaction_context(ctx, FALSE, outcome)
        again == _ensure_transaction_context(first[2], TRUE, outcome_again)
    IN  IF ~first[1] THEN <<FALSE, first[2]>>
        ELSE IF generated THEN <<TRUE, first[2]>>
        ELSE IF ~again[1] THEN <<FALSE, again[2]>>
        ELSE <<regenerated, again[2]>>

\* Only 401 counts as an authentication failure.
is_authentication_failure_401_only(status) == status = 401

\* response.status_code in {401, 403}
is_authentication_failure(status) == status \in {401, 403}

\* A 400 that is let through.
is_request_failure_above_400(status) == status > 400

\* response.status_code >= 400, the last test before `return response.json()`
is_request_failure(status) == status >= 400

\* The whole body in the message.
body_excerpt_whole(text) == text

\* response.text[:300]
body_excerpt(text) == SubSeq(text, 1, Min(Len(text), BodyExcerptLen))

\* A loop that makes one attempt more.
attempts_remain_one_more(att) == att <= max_retries

\* `for attempt in range(1, self.max_retries + 1)` has a next value.
attempts_remain(att) == att < max_retries

\* A 404 that is never retried.
retry_after_rebuild_never(status, rebuilt) == FALSE

\* The 404 branch runs `continue`: the forced rebuild returned True.
retry_after_rebuild(status, rebuilt) == status = 404 /\ rebuilt

AuthenticationError(status) ==
    [kind |-> "AuthenticationError", status |-> status, text |-> <<>>, cause |-> None]

\* ProtocolRequestError(f"Request failed ({status}) for {path}: {text[:300]}")
RequestFailed(status, text) ==
    [kind |-> "ProtocolRequestError", status |-> status, text |-> body_excerpt(text),
     cause |-> None]

\* The ProtocolRequestError raised after the loop, `from last_error` when
\* there is one.
FailedAfterRetries(cause) ==
    [kind |-> "ProtocolRequestError", status |-> 0, text |-> <<>>, cause |-> cause]

Returned(status) == [kind |-> "json", status |-> status, text |-> <<>>, cause |-> None]

\* No crawl is modelled.
NoCrawl ==
    /\ account_handle = Accounts[1]
    /\ keyword = <<>>
    /\ max_empty_pages = DefaultMaxEmptyPages
    /\ seen_tweet_ids = {}
    /\ seen_cursors = {}
    /\ cursor = None
    /\ empty_page_streak = 0
    /\ page_index = 0
    /\ pc = "none"
    /\ page_len = 0
    /\ post_index = 0
    /\ post = NoPost
    /\ page_next_cursor = None
    /\ reached_older_posts = FALSE
    /\ yielded = <<>>
    /\ sources = <<>>
    /\ requests = <<>>
    /\ last_call = NoCall
    /\ page_has_older = FALSE
    /\ page_counted_older = FALSE

\* Neither a crawl, nor the driver, nor a retry loop is modelled.
NoCore == NoCrawl /\ NoDriver /\ NoClient

ClientInit ==
    /\ NoCrawl
    /\ NoDriver
    /\ NoAux
    /\ max_retries \in MaxRetriesValues
    /\ attempt = 1
    /\ last_error = None
    /\ \E st \in InitialRateLimitStates :
           /\ rate_limit_limit = st.limit
           /\ rate_limit_remaining = st.remaining
           /\ rate_limit_reset = st.reset
    /\ transaction_context \in {None, "context"}
    /\ now = StartTime
    /\ client_pc = "attempt"
    /\ result = NoResult
    /\ http_requests = 0
    /\ stamped = FALSE
    /\ last_response = NoResponse
    /\ retryable_attempts = 0
    /\ network_error_seen = None
    /\ last_wait = NoNumber
    /\ slept_since_response = 0
    /\ rebuilds = 0

\* The head of one turn of the loop: wait for quota, build the headers
\* (with the transaction id, if one can be made) and send the request.
WaitAndSend(pacing, outcome, generated, outcome_again, regenerated) ==
    LET wait == _wait_for_available_quota(rate_limit_limit, rate_limit_remaining,
                                          rate_limit_reset, now, pacing)
        tid == _next_transaction_id(transaction_context, outcome, generated,
                                    outcome_again, regenerated)
    IN  /\ client_pc = "attempt"
        /\ now' = now + wait
        /\ slept_since_response' = slept_since_response + wait
        /\ stamped' = tid[1]
        /\ transaction_context' = tid[2]
        /\ http_requests' = http_requests + 1
        /\ client_pc' = "sent"
        /\ UNCHANGED <<aux_vars, crawl_vars, driver_vars, max_retries, attempt, last_error,
                       rate_limit_limit, rate_limit_remaining, rate_limit_reset, result,
                       last_response, retryable_attempts, network_error_seen, last_wait,
                       rebuilds>>

\* `continue` after a sleep of `wait` seconds: the next turn of the loop,
\* or the raise after the loop.
SleepAndContinue(wait, error) ==
    /\ now' = now + wait
    /\ last_wait' = wait
    /\ slept_since_response' = wait
    /\ last_error' = error
    /\ IF attempts_remain(attempt)
       THEN /\ attempt' = attempt + 1
            /\ client_pc' = "attempt"
            /\ result' = result
       ELSE /\ attempt' = attempt
            /\ client_pc' = "raised"
            /\ result' = FailedAfterRetries(error)

\* self._client.get raises httpx.RequestError.
RequestRaises(message) ==
    /\ client_pc = "sent"
    /\ SleepAndContinue(_sleep_backoff(attempt, NoNumber, "default", now), message)
    /\ last_response' = [NoResponse EXCEPT !.at = now, !.attempt = attempt]
    /\ retryable_attempts' = retryable_attempts + 1
    /\ network_error_seen' = message
    /\ UNCHANGED <<aux_vars, crawl_vars, driver_vars, max_retries, rate_limit_limit,
                   rate_limit_remaining, rate_limit_reset, transaction_context,
                   http_requests, stamped, rebuilds>>

\* A response comes: the rate-limit state is set from its headers and the
\* status decides.  reset_header: x-rate-limit-reset as a number, or
\* NoNumber; rebuild: how the forced rebuild ends if the status asks for one.
ResponseArrives(status, limit, remaining, reset_header, text, rebuild) ==
    LET ensured == _ensure_transaction_context(transaction_context, TRUE, rebuild)
    IN  /\ client_pc = "sent"
        /\ rate_limit_limit' = limit
        /\ rate_limit_remaining' = remaining
        /\ rate_limit_reset' = reset_header
        /\ last_response' = [status |-> status, limit |-> limit, remaining |-> remaining,
                             reset |-> reset_header, at |-> now, attempt |-> attempt,
                             rebuilt |-> (status = 404 /\ rebuild = "built"),
                             body |-> IF status = 404 THEN <<>> ELSE text]
        /\ retryable_attempts' =
               IF status = 429 \/ status >= 500 \/ (status = 404 /\ rebuild = "built")
               THEN retryable_attempts + 1
               ELSE retryable_attempts
        /\ network_error_seen' = network_error_seen
        /\ transaction_context' = IF status = 404 THEN ensured[2] ELSE transaction_context
        /\ rebuilds' = IF status = 404 THEN rebuilds + 1 ELSE rebuilds
        /\ IF is_authentication_failure(status)
           THEN /\ client_pc' = "raised"
                /\ result' = AuthenticationError(status)
                /\ last_wait' = NoNumber
                /\ slept_since_response' = 0
                /\ UNCHANGED <<attempt, last_error, now>>
           ELSE IF status = 429
           THEN SleepAndContinue(_sleep_backoff(attempt, reset_header, "rate_limit", now),
                                 last_error)
           ELSE IF status >= 500
           THEN SleepAndContinue(_sleep_backoff(attempt, NoNumber, "default", now),
                                 last_error)
           ELSE IF retry_after_rebuild(status, ensured[1])
           THEN SleepAndContinue(_sleep_backoff(attempt, NoNumber, "default", now),
                                 last_error)
           ELSE /\ client_pc' = IF is_request_failure(status) THEN "raised" ELSE "returned"
                /\ result' = IF is_request_failure(status) THEN RequestFailed(status, text)
                                                           ELSE Returned(status)
                /\ last_wait' = NoNumber
                /\ slept_since_response' = 0
                /\ UNCHANGED <<attempt, last_error, now>>
        /\ UNCHANGED <<aux_vars, crawl_vars, driver_vars, max_retries, http_requests, stamped>>

ClientNext ==
    \/ \E pacing \in PacingWaits, outcome \in EnsureOutcomes, generated \in BOOLEAN :
           \E outcome_again \in IF generated THEN {"built"} ELSE EnsureOutcomes,
              regenerated \in IF generated THEN {TRUE} ELSE BOOLEAN :
               WaitAndSend(pacing, outcome, generated, outcome_again, regenerated)
    \/ \E message \in NetworkErrors : RequestRaises(message)
    \/ \E status \in Statuses, quota \in QuotaHeaders,
          reset_header \in {NoNumber} \cup { now + off : off \in ResetOffsets } :
           \E text \in BodiesFor(status), rebuild \in RebuildsFor(status) :
               ResponseArrives(status, quota.limit, quota.remaining, reset_header,
                               text, rebuild)

ClientSpec == ClientInit /\ [][ClientNext]_vars

-----------------------------------------------------------------------------
(* Properties of the retry loop.                                            *)

\* A response has just been handled by this step.
ResponseHandled == client_pc = "sent" /\ last_response'.status # 0

\* The call has ended: nothing more happens in it.
CallEnded == client_pc \in {"raised", "returned"}

\* C15: in the retry loop a response with status 401 or 403, on any attempt,
\* raises AuthenticationError at once: the step that handles it ends the call
\* with that error, sleeps nothing, sends nothing more and leaves the attempt
\* counter alone, whatever number of attempts remains; and an ended call takes
\* no further step.
C15_Step ==
    /\ (ResponseHandled /\ last_response'.status \in {401, 403})
           => /\ client_pc' = "raised"
              /\ result' = AuthenticationError(last_response'.status)
              /\ now' = now
              /\ http_requests' = http_requests
              /\ attempt' = attempt
    /\ CallEnded => vars' = vars

C15_AuthenticationErrorAtOnce == [][C15_Step]_vars

\* A 403 on the first of three attempts has ended the call after one request.
C15_Witness ==
    /\ max_retries = DefaultMaxRetries
    /\ attempt = 1
    /\ last_response.status = 403
    /\ client_pc = "raised"
    /\ result.kind = "AuthenticationError"
    /\ http_requests = 1
    /\ now = StartTime

\* C16: one logical search request sends at most max_retries requests to the
\* search endpoint, whatever the responses and network errors are; and when
\* every one of the max_retries attempts ended in a retryable outcome (429,
\* status >= 500, 404 with a successful rebuild, a network exception) the call
\* has raised ProtocolRequestError, whose cause is the last network exception
\* if there was one and is absent otherwise.
C16_AtMostMaxRetries ==
    /\ http_requests <= max_retries
    /\ attempt <= max_retries
    /\ retryable_attempts = max_retries
           => /\ client_pc = "raised"
              /\ result = FailedAfterRetries(network_error_seen)
              /\ http_requests = max_retries

\* Three attempts, all retryable: a network error, then responses, the last a
\* 500; the error raised carries the network error as its cause.
C16_Witness ==
    /\ max_retries = DefaultMaxRetries
    /\ retryable_attempts = DefaultMaxRetries
    /\ http_requests = DefaultMaxRetries
    /\ network_error_seen = "timeout"
    /\ last_response.status = 500
    /\ client_pc = "raised"
    /\ result.kind = "ProtocolRequestError"
    /\ result.cause = "timeout"

\* The previous response was a 404 whose forced rebuild succeeded.
AfterRebuild == last_response.status = 404 /\ last_response.rebuilt

\* C17: a 404 response asks for one forced rebuild of the TransactionContext;
\* when the rebuild succeeds and attempts remain, the client sleeps one
\* default backoff (min(2^(attempt-1), 8) seconds), keeps the rebuilt context
\* and goes to the next attempt, whose request is then sent; and a 200 on that
\* attempt ends the call by returning the response's JSON.
C17_Step ==
    /\ (ResponseHandled /\ last_response'.status = 404)
           => rebuilds' = rebuilds + 1
    /\ (ResponseHandled /\ last_response'.status = 404 /\ last_response'.rebuilt
            /\ attempt < max_retries)
           => /\ client_pc' = "attempt"
              /\ attempt' = attempt + 1
              /\ now' - now = Min(2 ^ (attempt - 1), BackoffCapSeconds)
              /\ last_wait' = now' - now
              /\ transaction_context' = "context"
              /\ http_requests' = http_requests
              /\ result' = NoResult
    /\ (client_pc = "attempt" /\ AfterRebuild)
           => /\ client_pc' = "sent"
              /\ http_requests' = http_requests + 1
              /\ attempt' = last_response.attempt + 1
    /\ (ResponseHandled /\ AfterRebuild /\ last_response'.status = 200)
           => /\ last_response'.attempt = last_response.attempt + 1
              /\ client_pc' = "returned"
              /\ result' = Returned(200)
              /\ rebuilds' = rebuilds

C17_RebuildThenRetry == [][C17_Step]_vars

\* The first attempt got a 404 and the rebuild succeeded; the second attempt
\* got a 200, which was returned.
C17_Witness ==
    /\ client_pc = "returned"
    /\ result.kind = "json"
    /\ attempt = 2
    /\ http_requests = 2
    /\ rebuilds = 1
    /\ last_response.status = 200
    /\ transaction_context = "context"

\* C18: a 404 whose forced rebuild fails does not end the call at once: the
\* call has raised after such a response only when max_retries requests have
\* been sent.
C18_FailedRebuildRetries ==
    (client_pc = "raised" /\ last_response.status = 404 /\ ~last_response.rebuilt)
        => http_requests = max_retries

\* The first n characters of a text (all of it when it is shorter).
Prefix(text, n) == [i \in 1..Min(Len(text), n) |-> text[i]]

\* A status that fails without a retry: 4xx other than 401, 403, 404, 429.
PlainClientError(status) ==
    status >= 400 /\ status < 500 /\ status \notin {401, 403, 404, 429}

\* C19: a response with a 4xx status other than 401, 403, 404 and 429 raises
\* ProtocolRequestError on the attempt that received it: no sleep, no change
\* of the attempt counter and no further request; the error carries the
\* status code and the first 300 characters of the body (the whole body when
\* it is shorter), never more.
C19_Step ==
    /\ (ResponseHandled /\ PlainClientError(last_response'.status))
           => /\ client_pc' = "raised"
              /\ result'.kind = "ProtocolRequestError"
              /\ result'.status = last_response'.status
              /\ result'.text = Prefix(last_response'.body, BodyExcerptLen)
              /\ Len(result'.text) <= BodyExcerptLen
              /\ result'.cause = None
              /\ now' = now
              /\ attempt' = attempt
              /\ http_requests' = http_requests
    /\ (client_pc = "raised" /\ PlainClientError(last_response.status))
           => vars' = vars

C19_ClientErrorRaisesAtOnce == [][C19_Step]_vars

\* A 400 with a body of 301 characters on the first of three attempts: the
\* error carries 300 of them.
C19_Witness ==
    /\ max_retries = DefaultMaxRetries
    /\ attempt = 1
    /\ http_requests = 1
    /\ client_pc = "raised"
    /\ last_response.status = 400
    /\ Len(last_response.body) = BodyExcerptLen + 1
    /\ Len(result.text) = BodyExcerptLen
    /\ result.status = 400
    /\ now = StartTime

\* C39 as stated: the retry loop returns a decoded payload only for a
\* response whose status is exactly 200.
C39_ReturnsOnlyOn200 ==
    client_pc = "returned" => last_response.status = 200

\* C39: the retry loop returns a decoded payload only for a response whose
\* status is below 400, and for every such response; every attempt that
\* ends with a status of 400 or more leads to a retry, an AuthenticationError
\* or a ProtocolRequestError, never to a returned payload; and a call returns
\* only in the step that handles a response.
C39_Step ==
    /\ (ResponseHandled /\ last_response'.status < 400)
           => /\ client_pc' = "returned"
              /\ result' = Returned(last_response'.status)
    /\ (ResponseHandled /\ last_response'.status >= 400)
           => /\ result'.kind # "json"
              /\ client_pc' \in {"attempt", "raised"}
              /\ client_pc' = "attempt" => attempt' = attempt + 1
              /\ client_pc' = "raised"
                     => result'.kind \in {"AuthenticationError", "ProtocolRequestError"}
    /\ (client_pc # "returned" /\ client_pc' = "returned") => ResponseHandled

C39_ReturnsBelow400 == [][C39_Step]_vars

\* A 202 was answered and its payload returned.
C39_Witness ==
    /\ client_pc = "returned"
    /\ result = Returned(202)
    /\ last_response.status = 202
    /\ last_response.attempt = attempt

Clamp(x, lo, hi) == Min(Max(x, lo), hi)

\* The next attempt has just been sent after a 429 that carried a numeric
\* x-rate-limit-reset.
SentAfterRateLimit ==
    /\ client_pc = "sent"
    /\ last_response.status = 429
    /\ last_response.reset # NoNumber
    /\ attempt = last_response.attempt + 1

\* T of "x-rate-limit-reset = now+T" for the last response.
ResetDistance == last_response.reset - last_response.at

\* The statement of C20 as given: the total time slept between a 429 with
\* x-rate-limit-reset = now+T and the sending of the next attempt is exactly
\* clamp(T + reset_buffer, 1, max_rate_limit_wait), for every T and every
\* value of the other rate-limit headers.
C20_TotalSleepExact ==
    SentAfterRateLimit
        => slept_since_response =
               Clamp(ResetDistance + ResetBufferSeconds, 1, MaxRateLimitWaitSeconds)

\* C20: after a 429 with x-rate-limit-reset = now+T and attempts remaining,
\* the backoff sleep is exactly clamp(T + reset_buffer, 1,
\* max_rate_limit_wait), and the total time slept before the next attempt is
\* sent is never less; the total equals the backoff sleep when T is at most
\* max_rate_limit_wait or the response carried no x-rate-limit-remaining; when
\* T is larger and x-rate-limit-remaining is at or below the proactive
\* threshold, the quota wait before the next request adds
\* clamp(T - backoff + reset_buffer, 1, max_rate_limit_wait) seconds.
C20_BackoffSleepExact ==
    SentAfterRateLimit
        => LET backoff == Clamp(ResetDistance + ResetBufferSeconds, 1,
                                MaxRateLimitWaitSeconds)
           IN  /\ last_wait = backoff
               /\ slept_since_response >= backoff
               /\ now = last_response.at + slept_since_response
               /\ (ResetDistance <= MaxRateLimitWaitSeconds
                     \/ last_response.remaining = NoNumber)
                      => slept_since_response = backoff
               /\ (ResetDistance > MaxRateLimitWaitSeconds
                     /\ last_response.remaining # NoNumber
                     /\ last_response.remaining <= ProactiveThreshold)
                      => slept_since_response =
                             backoff + Clamp(ResetDistance - backoff + ResetBufferSeconds,
                                             1, MaxRateLimitWaitSeconds)

\* A 429 with no quota left and a reset 900 s ahead: the second attempt is
\* sent after a sleep of exactly 900 s.
C20_Witness ==
    /\ SentAfterRateLimit
    /\ attempt = 2
    /\ ResetDistance = MaxRateLimitWaitSeconds
    /\ last_response.remaining = 0
    /\ last_wait = MaxRateLimitWaitSeconds
    /\ slept_since_response = MaxRateLimitWaitSeconds

\* The next attempt has just been sent after a response that said the quota
\* was used up until a reset later than the response.
SentAfterExhaustedQuota ==
    /\ client_pc = "sent"
    /\ attempt = last_response.attempt + 1
    /\ last_response.status # 0
    /\ last_response.remaining = 0
    /\ last_response.reset # NoNumber
    /\ last_response.reset > last_response.at

\* Seconds between the last response and now.
SinceResponse == now - last_response.at

\* The first request of a call has just been sent, and the state earlier
\* calls left said the quota was used up until a reset later than the start
\* of the call.
FirstSentAfterExhaustedQuota ==
    /\ client_pc = "sent"
    /\ attempt = 1
    /\ rate_limit_remaining = 0
    /\ rate_limit_reset # NoNumber
    /\ rate_limit_reset > StartTime

\* The statement of C21 as given: after a response with
\* x-rate-limit-remaining: 0 and x-rate-limit-reset: R later than the
\* response, the next request is not sent before min(R - response_time +
\* reset_buffer, max_rate_limit_wait) seconds have passed since the response,
\* however much time elapsed before the quota check of the next request.
C21_NotBeforeResetPlusBuffer ==
    SentAfterExhaustedQuota
        => SinceResponse >= Min(ResetDistance + ResetBufferSeconds,
                                MaxRateLimitWaitSeconds)

\* C21: after a response with x-rate-limit-remaining: 0 and
\* x-rate-limit-reset: R later than the response, the next request is never
\* sent before min(R - response_time, max_rate_limit_wait) seconds have
\* passed; it is not sent before min(R - response_time + reset_buffer,
\* max_rate_limit_wait) seconds when the quota check of the next request runs
\* before R; when that check runs at R or later (the backoff sleep reached
\* R) the request is sent without a further wait.  A call that starts before
\* the reset of an exhausted quota sends its first request no earlier than
\* min(R + reset_buffer, start + max_rate_limit_wait).
C21_NotBeforeReset ==
    /\ SentAfterExhaustedQuota
           => /\ SinceResponse >= Min(ResetDistance, MaxRateLimitWaitSeconds)
              /\ last_wait < ResetDistance
                     => SinceResponse >= Min(ResetDistance + ResetBufferSeconds,
                                             MaxRateLimitWaitSeconds)
              /\ last_wait >= ResetDistance => SinceResponse = last_wait
    /\ FirstSentAfterExhaustedQuota
           => now >= Min(rate_limit_reset + ResetBufferSeconds,
                         StartTime + MaxRateLimitWaitSeconds)

\* A 500 on the first attempt said: no quota left, reset in 3 s.  The backoff
\* slept 1 s, the quota check 4 s more, and the second attempt went out 5 s
\* after the response.
C21_Witness ==
    /\ SentAfterExhaustedQuota
    /\ last_response.status = 500
    /\ attempt = 2
    /\ ResetDistance = 3
    /\ last_wait = 1
    /\ SinceResponse = 3 + ResetBufferSeconds

\* The RateLimitState is the one the most recent response left.
StateLeftByResponse ==
    last_response.status # 0
        => /\ rate_limit_limit = last_response.limit
           /\ rate_limit_remaining = last_response.remaining
           /\ rate_limit_reset = last_response.reset

\* The proactive check has nothing to wait for: remaining or reset unknown,
\* the window already rolled, or quota left and the limit unknown.
NothingToWaitFor ==
    \/ rate_limit_remaining = NoNumber
    \/ rate_limit_reset = NoNumber
    \/ rate_limit_reset <= now
    \/ (rate_limit_remaining > ProactiveThreshold /\ rate_limit_limit = NoNumber)

\* C23: every attempt, the first and each retry alike, runs the proactive
\* quota check on the RateLimitState left by the most recent response and
\* then sends its request: the step from the head of an attempt sends one
\* request, sleeps nothing when remaining or reset is unknown, when reset <=
\* now, or when remaining is above the proactive threshold and the limit is
\* unknown, and sleeps clamp(reset - now + reset_buffer, 1,
\* max_rate_limit_wait) when remaining is at or below the threshold and the
\* reset is ahead.
C23_State == StateLeftByResponse

C23_Step ==
    client_pc = "attempt"
        => /\ client_pc' = "sent"
           /\ http_requests' = http_requests + 1
           /\ attempt' = attempt
           /\ <<rate_limit_limit, rate_limit_remaining, rate_limit_reset>>' =
                  <<rate_limit_limit, rate_limit_remaining, rate_limit_reset>>
           /\ NothingToWaitFor => now' = now
           /\ (~NothingToWaitFor /\ rate_limit_remaining <= ProactiveThreshold)
                  => now' - now = Clamp(rate_limit_reset - now + ResetBufferSeconds, 1,
                                        MaxRateLimitWaitSeconds)

C23_QuotaCheckBeforeEveryRequest == []C23_State /\ [][C23_Step]_vars

\* A retry whose quota check had quota left but no limit to pace with: the
\* second attempt went out right after the backoff sleep, with the reset
\* still ahead.
C23_Witness ==
    /\ client_pc = "sent"
    /\ attempt = 2
    /\ last_response.status = 500
    /\ last_response.remaining = 8
    /\ last_response.limit = NoNumber
    /\ last_response.reset > now
    /\ slept_since_response = last_wait

-----------------------------------------------------------------------------
(* XProtocolClient._update_rate_limit_state: the RateLimitState across the  *)
(* responses of one client.                                                 *)

DigitChars == <<"0", "1", "2", "3", "4", "5", "6", "7", "8", "9">>

\* str.isdigit() of one character.
is_digit_char(ch) == \E d \in 1..Len(DigitChars) : DigitChars[d] = ch

\* int(ch) of a digit.
digit_value(ch) == (CHOOSE d \in 1..Len(DigitChars) : DigitChars[d] = ch) - 1

\* text.strip(): the text without the blanks at its ends.
RECURSIVE strip(_)
strip(text) ==
    IF text = <<>> THEN text
    ELSE IF Head(text) = " " THEN strip(Tail(text))
    ELSE IF text[Len(text)] = " " THEN strip(SubSeq(text, 1, Len(text) - 1))
    ELSE text

\* text.isdigit(): not empty and digits only.
isdigit(text) == text # <<>> /\ \A i \in 1..Len(text) : is_digit_char(text[i])

\* int(text) of a text of digits.
RECURSIVE int(_)
int(text) ==
    IF text = <<>> THEN 0
    ELSE 10 * int(SubSeq(text, 1, Len(text) - 1)) + digit_value(text[Len(text)])

\* _parse_int_header of one header value (NoHeader: the header is missing).
_parse_int_header(value) ==
    IF value = NoHeader THEN NoNumber
    ELSE LET text == strip(value)
         IN  IF ~isdigit(text) THEN NoNumber ELSE int(text)

\* The fields _update_rate_limit_state assigns, from the headers by name.
_update_rate_limit_state(hdrs) ==
    [f \in RateLimitFields |-> _parse_int_header(hdrs[f])]

\* The values a header may carry: missing, empty, digits, digits between
\* blanks, digits and a letter.
HeaderValues ==
    { NoHeader, <<>>, <<"7">>, <<"1", "2">>, <<" ", "7", " ">>, <<"7", "x">> }

\* The values a field may have from earlier responses.
FieldValues == {NoNumber, 0, 12}

RateLimitInit ==
    /\ NoCore
    /\ NoVerify
    /\ NoSession
    /\ NoTxn
    /\ NoStamp
    /\ NoParser
    /\ NoMain
    /\ NoLifecycle
    /\ NoBackoff
    /\ rl_state \in [RateLimitFields -> FieldValues]
    /\ rl_before = rl_state
    /\ rl_headers = [f \in RateLimitFields |-> NoHeader]

\* A response comes with these headers.
UpdateRateLimitState(hdrs) ==
    /\ rl_before' = rl_state
    /\ rl_headers' = hdrs
    /\ rl_state' = _update_rate_limit_state(hdrs)
    /\ UNCHANGED rl_frame

RateLimitNext ==
    \E hdrs \in [RateLimitFields -> HeaderValues] : UpdateRateLimitState(hdrs)

RateLimitSpec == RateLimitInit /\ [][RateLimitNext]_vars

\* The header is present and all digits.
AllDigits(value) ==
    /\ value # NoHeader
    /\ Len(value) > 0
    /\ \A i \in 1..Len(value) : value[i] \in {"0", "1", "2", "3", "4", "5", "6", "7", "8", "9"}

\* C22: updating the RateLimitState from a response changes only the fields
\* whose header is present with an all-digits value: a field whose header is
\* missing or not all digits keeps the value it had before the response.
C22_AbsentHeaderKeepsField ==
    \A f \in RateLimitFields :
        ~AllDigits(rl_headers[f]) => rl_state[f] = rl_before[f]

-----------------------------------------------------------------------------
(* XProtocolClient.verify_credentials: the two-stage probe of a cookie jar. *)

\* The ct0 cookie a jar may give the client: none, an empty value, a token.
Ct0Values == {None, "", "ct0-a", "ct0-b"}

\* The status codes the two endpoints may answer with.
ProbeStatuses == {200, 400, 401, 403, 404, 429, 500, 503}

\* A network error as an outcome.
NetworkError == 0

VerifyEndpoint == "verify_credentials"
SearchTimelineEndpoint == "SearchTimeline"

\* self._csrf_token(): the cookie value, "" when there is none.
_csrf_token(cookie) == IF cookie = None THEN "" ELSE cookie

\* A probe that trusts a 200 only.
probe_authenticated_on_200_only(outcome) == outcome = 200

\* What the SearchTimeline probe says: only 401 and 403 are a hard failure.
probe_authenticated(outcome) == outcome \notin {401, 403}

VerifyInit ==
    /\ NoCore
    /\ NoRateLimit
    /\ NoSession
    /\ NoTxn
    /\ NoStamp
    /\ NoParser
    /\ NoMain
    /\ NoLifecycle
    /\ NoBackoff
    /\ verify_pc = "start"
    /\ ct0 \in Ct0Values
    /\ verify_result = FALSE
    /\ verify_requests = <<>>
    /\ verify_outcomes = <<>>

\* The check of ct0, and the first request when there is one.
VerifyBegins ==
    /\ verify_pc = "start"
    /\ IF _csrf_token(ct0) = ""
       THEN /\ verify_pc' = "done"
            /\ verify_result' = FALSE
            /\ verify_requests' = verify_requests
       ELSE /\ verify_pc' = "stage1"
            /\ verify_result' = verify_result
            /\ verify_requests' = Append(verify_requests, VerifyEndpoint)
    /\ UNCHANGED <<ct0, verify_outcomes>>
    /\ UNCHANGED verify_frame

\* Stage 1 is over with this outcome: it decides on 200, 401 and 403, and the
\* SearchTimeline probe goes out otherwise.
Stage1Ends(outcome) ==
    /\ verify_pc = "stage1"
    /\ verify_outcomes' = Append(verify_outcomes, outcome)
    /\ IF outcome = 200
       THEN /\ verify_pc' = "done"
            /\ verify_result' = TRUE
            /\ verify_requests' = verify_requests
       ELSE IF outcome \in {401, 403}
       THEN /\ verify_pc' = "done"
            /\ verify_result' = FALSE
            /\ verify_requests' = verify_requests
       ELSE /\ verify_pc' = "stage2"
            /\ verify_result' = verify_result
            /\ verify_requests' = Append(verify_requests, SearchTimelineEndpoint)
    /\ UNCHANGED ct0
    /\ UNCHANGED verify_frame

\* The SearchTimeline probe is over with this outcome.
ProbeEnds(outcome) ==
    /\ verify_pc = "stage2"
    /\ verify_outcomes' = Append(verify_outcomes, outcome)
    /\ verify_pc' = "done"
    /\ verify_result' = probe_authenticated(outcome)
    /\ UNCHANGED <<ct0, verify_requests>>
    /\ UNCHANGED verify_frame

VerifyNext ==
    \/ VerifyBegins
    \/ \E outcome \in ProbeStatuses \cup {NetworkError} : Stage1Ends(outcome)
    \/ \E outcome \in ProbeStatuses \cup {NetworkError} : ProbeEnds(outcome)

VerifySpec == VerifyInit /\ [][VerifyNext]_vars

\* C24: verify_credentials issues no request and returns false when the jar
\* gives no ct0 value (none, or an empty one); otherwise the first request
\* goes to verify_credentials.json and decides alone on 200 (true) and on
\* 401/403 (false), with no second request; on any other status or a network
\* error exactly one SearchTimeline probe follows, and the result is false
\* exactly when that probe returns 401 or 403.
C24_TwoStageProbe ==
    /\ Len(verify_requests) <= 2
    /\ (ct0 = None \/ ct0 = "")
           => /\ verify_requests = <<>>
              /\ verify_pc = "done" => ~verify_result
    /\ (ct0 # None /\ ct0 # "" /\ verify_pc = "done")
           => /\ verify_requests[1] = VerifyEndpoint
              /\ verify_outcomes[1] = 200
                     => verify_result /\ Len(verify_requests) = 1
              /\ verify_outcomes[1] \in {401, 403}
                     => ~verify_result /\ Len(verify_requests) = 1
              /\ verify_outcomes[1] \notin {200, 401, 403}
                     => /\ Len(verify_requests) = 2
                        /\ verify_requests[2] = SearchTimelineEndpoint
                        /\ Len(verify_outcomes) = 2
                        /\ ~verify_result <=> verify_outcomes[2] \in {401, 403}

\* Stage 1 answered 404 and the probe ended in a network error: the jar is
\* taken as authenticated after two requests.
C24_Witness ==
    /\ verify_pc = "done"
    /\ verify_outcomes = <<404, NetworkError>>
    /\ verify_requests = <<VerifyEndpoint, SearchTimelineEndpoint>>
    /\ verify_result

-----------------------------------------------------------------------------
(* SessionManager: load_cookies, ensure_cookies and refresh_cookies over    *)
(* the cookie file.  The probe and the login flow are given from outside.   *)

Cookie(name, value) == [name |-> name, value |-> value]

\* Jars a cookie file may hold: empty, with both core cookies, with a guest
\* cookie only, with ct0 only, with an empty auth_token beside ct0.
StoredJars ==
    { <<>>,
      <<Cookie("auth_token", "a"), Cookie("ct0", "b")>>,
      <<Cookie("guest_id", "g")>>,
      <<Cookie("ct0", "b")>>,
      <<Cookie("auth_token", ""), Cookie("ct0", "b")>> }

\* Jars the login flow may hand over.  The browser flow of this repository
\* returns only jars with both core cookies; a login flow put in its place
\* may return any jar.
LoginJars ==
    { <<Cookie("auth_token", "new-auth"), Cookie("ct0", "new-ct0")>>,
      <<Cookie("guest_id", "guest")>>,
      <<Cookie("auth_token", ""), Cookie("ct0", "new-ct0")>> }

\* What cookies_path may hold: nothing, text that is not JSON, a JSON object,
\* a JSON string, a JSON array of cookies.
CookieFiles ==
    { MissingFile,
      [kind |-> "not json", jar |-> <<>>],
      [kind |-> "object", jar |-> <<>>],
      [kind |-> "string", jar |-> <<>>] }
    \cup { [kind |-> "array", jar |-> jar] : jar \in StoredJars }

\* How a probe call may end.
ProbeOutcomes == {"true", "false", "raises"}

\* How the login flow may fail.
LoginErrors == {"TimeoutError", "RuntimeError"}

\* load_cookies on a file: a jar, None, or the exception json.loads raises.
load_cookies(file) ==
    IF file.kind = "missing" THEN [kind |-> "None", jar |-> <<>>]
    ELSE IF file.kind = "not json" THEN [kind |-> "JSONDecodeError", jar |-> <<>>]
    ELSE IF file.kind = "array" THEN [kind |-> "jar", jar |-> file.jar]
    ELSE [kind |-> "None", jar |-> <<>>]

\* What save_cookies(cookies) leaves in the file.
save_cookies(jar) == [kind |-> "array", jar |-> jar]

\* Core cookies told by name only.
has_core_auth_cookies_by_name(jar) ==
    LET cookie_names == { jar[i].name : i \in 1..Len(jar) }
    IN  "auth_token" \in cookie_names /\ "ct0" \in cookie_names

\* _has_core_auth_cookies
_has_core_auth_cookies(jar) ==
    LET cookie_names == { jar[i].name : i \in { j \in 1..Len(jar) : jar[j].value # "" } }
    IN  "auth_token" \in cookie_names /\ "ct0" \in cookie_names

\* A probe that raised taken as passed.
probe_ok_unless_false(outcome) == outcome # "false"

\* probe_ok after the try/except around the probe call.
probe_ok(outcome) == outcome = "true"

SessionInit ==
    /\ NoCore
    /\ NoRateLimit
    /\ NoVerify
    /\ NoTxn
    /\ NoStamp
    /\ NoParser
    /\ NoMain
    /\ NoLifecycle
    /\ NoBackoff
    /\ sm_entry \in {"ensure_cookies", "refresh_cookies"}
    /\ sm_pc = IF sm_entry = "ensure_cookies" THEN "ensure" ELSE "login"
    /\ cookie_file \in CookieFiles
    /\ cookie_file_before = cookie_file
    /\ sm_loaded = NotLoaded
    /\ sm_cookies = <<>>
    /\ sm_result = NoSessionResult
    /\ sm_logins = 0
    /\ sm_probes = <<>>
    /\ sm_saved = <<>>

\* ensure_cookies loads the file: the exception of load_cookies leaves
\* ensure_cookies; a jar that is not empty is probed; otherwise
\* refresh_cookies is called.
LoadCookies ==
    LET existing == load_cookies(cookie_file)
    IN  /\ sm_pc = "ensure"
        /\ sm_loaded' = existing
        /\ IF existing.kind = "JSONDecodeError"
           THEN /\ sm_pc' = "raised"
                /\ sm_result' = [kind |-> "error", jar |-> <<>>, error |-> existing.kind]
           ELSE /\ sm_pc' = IF existing.kind = "jar" /\ existing.jar # <<>>
                            THEN "probe_existing" ELSE "login"
                /\ sm_result' = sm_result
        /\ UNCHANGED <<sm_entry, cookie_file, sm_cookies, sm_logins, sm_probes, sm_saved,
                       cookie_file_before>>
        /\ UNCHANGED session_frame

\* The probe of the loaded jar ends.
ProbeExisting(outcome) ==
    /\ sm_pc = "probe_existing"
    /\ sm_probes' = Append(sm_probes, [jar |-> sm_loaded.jar, outcome |-> outcome,
                                       fresh |-> FALSE])
    /\ IF probe_ok(outcome) \/ _has_core_auth_cookies(sm_loaded.jar)
       THEN /\ sm_pc' = "returned"
            /\ sm_result' = [kind |-> "jar", jar |-> sm_loaded.jar, error |-> ""]
       ELSE /\ sm_pc' = "login"
            /\ sm_result' = sm_result
    /\ UNCHANGED <<sm_entry, cookie_file, sm_loaded, sm_cookies, sm_logins, sm_saved,
                   cookie_file_before>>
    /\ UNCHANGED session_frame

\* _interactive_login returns a jar.
InteractiveLogin(jar) ==
    /\ sm_pc = "login"
    /\ sm_logins' = sm_logins + 1
    /\ sm_cookies' = jar
    /\ sm_pc' = "probe_fresh"
    /\ UNCHANGED <<sm_entry, cookie_file, sm_loaded, sm_result, sm_probes, sm_saved,
                   cookie_file_before>>
    /\ UNCHANGED session_frame

\* _interactive_login raises: the login timed out, or no browser started.
InteractiveLoginRaises(error) ==
    /\ sm_pc = "login"
    /\ sm_logins' = sm_logins + 1
    /\ sm_pc' = "raised"
    /\ sm_result' = [kind |-> "error", jar |-> <<>>, error |-> error]
    /\ UNCHANGED <<sm_entry, cookie_file, sm_loaded, sm_cookies, sm_probes, sm_saved,
                   cookie_file_before>>
    /\ UNCHANGED session_frame

\* The probe of the new jar ends: RuntimeError, or save and return.
ProbeFresh(outcome) ==
    /\ sm_pc = "probe_fresh"
    /\ sm_probes' = Append(sm_probes, [jar |-> sm_cookies, outcome |-> outcome,
                                       fresh |-> TRUE])
    /\ IF ~probe_ok(outcome) /\ ~_has_core_auth_cookies(sm_cookies)
       THEN /\ sm_pc' = "raised"
            /\ sm_result' = [kind |-> "error", jar |-> <<>>, error |-> "RuntimeError"]
            /\ UNCHANGED <<cookie_file, sm_saved>>
       ELSE /\ sm_pc' = "returned"
            /\ cookie_file' = save_cookies(sm_cookies)
            /\ sm_saved' = Append(sm_saved, sm_cookies)
            /\ sm_result' = [kind |-> "jar", jar |-> sm_cookies, error |-> ""]
    /\ UNCHANGED <<sm_entry, sm_loaded, sm_cookies, sm_logins, cookie_file_before>>
    /\ UNCHANGED session_frame

SessionNext ==
    \/ LoadCookies
    \/ \E outcome \in ProbeOutcomes : ProbeExisting(outcome)
    \/ \E jar \in LoginJars : InteractiveLogin(jar)
    \/ \E error \in LoginErrors : InteractiveLoginRaises(error)
    \/ \E outcome \in ProbeOutcomes : ProbeFresh(outcome)

SessionSpec == SessionInit /\ [][SessionNext]_vars

\* A jar is core-authenticated: non-empty values for auth_token and for ct0.
CoreAuthenticated(jar) ==
    /\ \E i \in 1..Len(jar) : jar[i].name = "auth_token" /\ jar[i].value # ""
    /\ \E i \in 1..Len(jar) : jar[i].name = "ct0" /\ jar[i].value # ""

SessionCallOver == sm_pc \in {"returned", "raised"}

\* The file could be read: it is missing or holds JSON.
FileReadable == cookie_file_before.kind # "not json"

\* The jar the file gave, <<>> when it gave none.
LoadedJar == IF cookie_file_before.kind = "array" THEN cookie_file_before.jar ELSE <<>>

\* The probe of the loaded jar has run and returned true.
ExistingProbeTrue ==
    /\ sm_probes # <<>>
    /\ ~sm_probes[1].fresh
    /\ sm_probes[1].outcome = "true"

\* The loaded jar is to be reused: it is not empty, and the probe returned
\* true or the jar is core-authenticated.
Reusable == LoadedJar # <<>> /\ (ExistingProbeTrue \/ CoreAuthenticated(LoadedJar))

\* The outcome of the probe of the new jar, once it has run.
FreshProbeDone == sm_probes # <<>> /\ sm_probes[Len(sm_probes)].fresh
FreshProbeOutcome == sm_probes[Len(sm_probes)].outcome

\* C25: for a cookie file that load_cookies can read (no file, or JSON of any
\* kind), ensure_cookies returns the loaded jar without a login exactly when
\* the loaded jar is not empty and the probe returned true or the jar is
\* core-authenticated; a probe that raises counts as false, and an empty or
\* missing jar is not probed; in every other case the login flow runs once
\* and the call ends as refresh_cookies ends: it returns the new jar, saved
\* to the file, or raises.
C25_EnsureCookies ==
    (sm_entry = "ensure_cookies" /\ FileReadable)
        => /\ sm_logins <= 1
           /\ LoadedJar = <<>> => (sm_probes = <<>> \/ sm_probes[1].fresh)
           /\ sm_logins = 1 => ~Reusable
           /\ SessionCallOver
                  => /\ (sm_pc = "returned" /\ sm_logins = 0) <=> Reusable
                     /\ Reusable
                            => /\ sm_result = [kind |-> "jar", jar |-> LoadedJar,
                                               error |-> ""]
                               /\ sm_saved = <<>>
                               /\ cookie_file = cookie_file_before
                     /\ ~Reusable
                            => /\ sm_logins = 1
                               /\ sm_pc = "returned"
                                      => /\ sm_result.jar = sm_cookies
                                         /\ sm_saved = <<sm_cookies>>

\* The file held a jar with both core cookies, the probe raised, and the jar
\* was returned with no login.
C25_Witness ==
    /\ sm_entry = "ensure_cookies"
    /\ sm_pc = "returned"
    /\ CoreAuthenticated(LoadedJar)
    /\ Len(sm_probes) = 1
    /\ sm_probes[1].outcome = "raises"
    /\ sm_logins = 0
    /\ sm_result.jar = LoadedJar

\* C26: once the login flow has handed over a jar, refresh_cookies fails
\* exactly when the probe of that jar fails (returns false or raises) and the
\* jar is not core-authenticated; a call that fails (also one whose login
\* flow raised) saves nothing and leaves the cookie file as it was; a call
\* that succeeds saves once, and the jar in the file is the jar returned.
C26_RefreshCookies ==
    /\ (SessionCallOver /\ FreshProbeDone)
           => (sm_pc = "raised"
                  <=> (FreshProbeOutcome # "true" /\ ~CoreAuthenticated(sm_cookies)))
    /\ sm_pc = "raised"
           => /\ sm_saved = <<>>
              /\ cookie_file = cookie_file_before
    /\ (sm_pc = "returned" /\ sm_logins > 0)
           => /\ FreshProbeDone
              /\ sm_saved = <<sm_result.jar>>
              /\ sm_result.jar = sm_cookies
              /\ cookie_file = [kind |-> "array", jar |-> sm_result.jar]
              /\ load_cookies(cookie_file).jar = sm_result.jar

\* refresh_cookies got a jar without the core cookies and the probe said
\* false: it raised, and the file still holds the jar it held before.
C26_Witness ==
    /\ sm_entry = "refresh_cookies"
    /\ sm_pc = "raised"
    /\ FreshProbeDone
    /\ FreshProbeOutcome = "false"
    /\ ~CoreAuthenticated(sm_cookies)
    /\ sm_result.error = "RuntimeError"
    /\ cookie_file.kind = "array"
    /\ cookie_file.jar # <<>>
    /\ sm_saved = <<>>

\* C27: load_cookies returns the jar when the cookie file holds a JSON array,
\* and returns none, without raising, in every other case: the file is
\* missing, or its content is not a JSON array.
C27_LoadNeverRaises ==
    sm_loaded # NotLoaded
        => IF cookie_file_before.kind = "array"
           THEN sm_loaded = [kind |-> "jar", jar |-> cookie_file_before.jar]
           ELSE sm_loaded = [kind |-> "None", jar |-> <<>>]

-----------------------------------------------------------------------------
(* XClientTransaction.generate_transaction_id on one context.               *)

\* key_bytes and random_number of the context.
KeyBytes == <<165, 90, 3>>
AdditionalRandomNumber == 3

ByteSize == 256

\* SHA-256 is not computed: the digest of a text stands as the text's parts,
\* one number each, so that different texts have different digests.
MethodCode(method) == IF method = "GET" THEN 71 ELSE 80
PathCode(path) == IF path = "/a" THEN 97 ELSE 98
digest_bytes(method, path, unix_delta_seconds) ==
    <<MethodCode(method), PathCode(path), unix_delta_seconds % ByteSize,
      (unix_delta_seconds \div ByteSize) % ByteSize>>

\* item ^ random_byte
RECURSIVE xor(_, _)
xor(a, b) ==
    IF a = 0 /\ b = 0 THEN 0
    ELSE (((a % 2) + (b % 2)) % 2) + 2 * xor(a \div 2, b \div 2)

Base64Chars ==
    << "A", "B", "C", "D", "E", "F", "G", "H", "I", "J", "K", "L", "M", "N", "O", "P",
       "Q", "R", "S", "T", "U", "V", "W", "X", "Y", "Z", "a", "b", "c", "d", "e", "f",
       "g", "h", "i", "j", "k", "l", "m", "n", "o", "p", "q", "r", "s", "t", "u", "v",
       "w", "x", "y", "z", "0", "1", "2", "3", "4", "5", "6", "7", "8", "9", "+", "/" >>

\* base64.b64encode(data).decode().strip("="): four characters for three
\* bytes, and no padding at the end.
RECURSIVE b64encode_stripped(_)
b64encode_stripped(data) ==
    IF Len(data) = 0 THEN <<>>
    ELSE IF Len(data) = 1
    THEN <<Base64Chars[(data[1] \div 4) + 1], Base64Chars[(data[1] % 4) * 16 + 1]>>
    ELSE IF Len(data) = 2
    THEN <<Base64Chars[(data[1] \div 4) + 1],
           Base64Chars[(data[1] % 4) * 16 + (data[2] \div 16) + 1],
           Base64Chars[(data[2] % 16) * 4 + 1]>>
    ELSE <<Base64Chars[(data[1] \div 4) + 1],
           Base64Chars[(data[1] % 4) * 16 + (data[2] \div 16) + 1],
           Base64Chars[(data[2] % 16) * 4 + (data[3] \div 64) + 1],
           Base64Chars[(data[3] % 64) + 1]>>
         \o b64encode_stripped(SubSeq(data, 4, Len(data)))

\* generate_transaction_id(method, path, time_now, random_num) when the wall
\* clock gives `clock` and random.randint gives `rand`.  `time_now or ...`
\* takes the clock for None and for 0; `random_num if random_num is not None`
\* takes rand for None only.
generate_transaction_id(method, path, time_now, random_num, clock, rand) ==
    LET unix_delta_seconds == IF time_now # NoNumber /\ time_now # 0 THEN time_now ELSE clock
        time_now_bytes ==
            [index \in 1..4 |-> (unix_delta_seconds \div (ByteSize ^ (index - 1))) % ByteSize]
        random_byte == IF random_num # NoNumber THEN random_num ELSE rand
        payload == KeyBytes \o time_now_bytes
                       \o digest_bytes(method, path, unix_delta_seconds)
                       \o <<AdditionalRandomNumber>>
        obfuscated == <<random_byte>> \o [i \in 1..Len(payload) |-> xor(payload[i], random_byte)]
    IN  b64encode_stripped(obfuscated)

\* The arguments of the calls modelled.
TxnMethods == {"GET", "POST"}
TxnPaths == {"/a", "/b"}
TimeNowValues == {NoNumber, 0, 70000}
RandomNumValues == {NoNumber, 0, 255}

\* What the wall clock and random.randint may give.
ClockValues == {70001, 70002}
RandomBytes == {7, 200}

TxnInit ==
    /\ NoCore
    /\ NoRateLimit
    /\ NoVerify
    /\ NoSession
    /\ NoStamp
    /\ NoParser
    /\ NoMain
    /\ NoLifecycle
    /\ NoBackoff
    /\ txn_clock = 70001
    /\ txn_first = NoTxnCall
    /\ txn_second = NoTxnCall

TxnCall(method, path, time_now, random_num, rand) ==
    [made |-> TRUE, method |-> method, path |-> path, time_now |-> time_now,
     random_num |-> random_num,
     id |-> generate_transaction_id(method, path, time_now, random_num, txn_clock, rand)]

FirstCall(method, path, time_now, random_num, rand) ==
    /\ ~txn_first.made
    /\ txn_first' = TxnCall(method, path, time_now, random_num, rand)
    /\ UNCHANGED <<txn_clock, txn_second>>
    /\ UNCHANGED txn_frame

SecondCall(method, path, time_now, random_num, rand) ==
    /\ txn_first.made
    /\ ~txn_second.made
    /\ txn_second' = TxnCall(method, path, time_now, random_num, rand)
    /\ UNCHANGED <<txn_clock, txn_first>>
    /\ UNCHANGED txn_frame

\* Time passes.
ClockTicks ==
    /\ txn_clock + 1 \in ClockValues
    /\ txn_clock' = txn_clock + 1
    /\ UNCHANGED <<txn_first, txn_second>>
    /\ UNCHANGED txn_frame

TxnNext ==
    \/ \E method \in TxnMethods, path \in TxnPaths, time_now \in TimeNowValues,
          random_num \in RandomNumValues, rand \in RandomBytes :
           FirstCall(method, path, time_now, random_num, rand)
    \/ \E method \in TxnMethods, path \in TxnPaths, time_now \in TimeNowValues,
          random_num \in RandomNumValues, rand \in RandomBytes :
           SecondCall(method, path, time_now, random_num, rand)
    \/ ClockTicks

TxnSpec == TxnInit /\ [][TxnNext]_vars

\* Both calls were made with a time_now and a random byte supplied, the same
\* in both.
BothSupplied ==
    /\ txn_first.made
    /\ txn_second.made
    /\ txn_first.time_now # NoNumber
    /\ txn_first.random_num # NoNumber
    /\ txn_second.time_now = txn_first.time_now
    /\ txn_second.random_num = txn_first.random_num
    /\ txn_second.method = txn_first.method

\* C28: for every supplied time_now (0 included) and every supplied random
\* byte, generate_transaction_id depends only on its arguments and the
\* context: two calls with equal arguments return the same string whatever the
\* wall clock and the random generator do in between, and two calls that
\* differ only in path return different strings.
C28_Deterministic ==
    BothSupplied
        => /\ txn_second.path = txn_first.path => txn_second.id = txn_first.id
           /\ txn_second.path # txn_first.path => txn_second.id # txn_first.id

-----------------------------------------------------------------------------
(* The x-client-transaction-id of the requests of one client: which         *)
(* TransactionContext, if any, each request is stamped from.                *)

\* The most contexts one client builds in a run of the model.
MaxGenerations == 2

StampInit ==
    /\ NoCore
    /\ NoRateLimit
    /\ NoVerify
    /\ NoSession
    /\ NoTxn
    /\ NoParser
    /\ NoMain
    /\ NoLifecycle
    /\ NoBackoff
    /\ st_pc = "idle"
    /\ st_context = None
    /\ st_generation = 0
    /\ st_stamped_by = 0
    /\ st_stale = {}
    /\ st_inputs = NoInputs
    /\ st_fetches = 0
    /\ st_response = "none"
    /\ st_last_build = "none"

\* _request_headers(path=...) and the request that follows: the id comes from
\* _next_transaction_id, and the request goes out with or without it.
BuildHeadersAndSend(outcome, generated, outcome_again, regenerated) ==
    LET first == _ensure_transaction_context(st_context, FALSE, outcome)
        tid == _next_transaction_id(st_context, outcome, generated, outcome_again,
                                    regenerated)
        built_first == st_context = None /\ outcome = "built"
        built_again == first[1] /\ ~generated /\ outcome_again = "built"
        builds == (IF built_first THEN 1 ELSE 0) + (IF built_again THEN 1 ELSE 0)
        fetches == transaction_context_fetches(st_context, FALSE)
                   + (IF first[1] /\ ~generated
                      THEN transaction_context_fetches(first[2], TRUE) ELSE 0)
    IN  /\ st_pc = "idle"
        /\ st_generation + builds <= MaxGenerations
        /\ st_context' = tid[2]
        /\ st_generation' = st_generation + builds
        /\ st_stamped_by' = IF tid[1] THEN st_generation + builds ELSE 0
        /\ st_inputs' = [context_before |-> st_context, outcome |-> outcome,
                         generated |-> generated, outcome_again |-> outcome_again,
                         regenerated |-> regenerated]
        /\ st_pc' = "sent"
        /\ st_fetches' = fetches
        /\ st_response' = "none"
        /\ st_last_build' = (IF first[1] /\ ~generated THEN outcome_again
                             ELSE IF st_context = None THEN outcome
                             ELSE st_last_build)
        /\ UNCHANGED st_stale
        /\ UNCHANGED stamp_frame

\* The request gets a 404: the context in hand was current when it came, and
\* a forced rebuild is asked for.
Response404(rebuild) ==
    LET ensured == _ensure_transaction_context(st_context, TRUE, rebuild)
        builds == IF rebuild = "built" THEN 1 ELSE 0
    IN  /\ st_pc = "sent"
        /\ st_generation + builds <= MaxGenerations
        /\ st_stale' = st_stale \cup (IF st_context # None THEN {st_generation} ELSE {})
        /\ st_context' = ensured[2]
        /\ st_generation' = st_generation + builds
        /\ st_pc' = "idle"
        /\ st_inputs' = NoInputs
        /\ st_fetches' = transaction_context_fetches(st_context, TRUE)
        /\ st_response' = "404"
        /\ st_last_build' = rebuild
        /\ UNCHANGED st_stamped_by
        /\ UNCHANGED stamp_frame

\* The request ends in any other way.
ResponseOther ==
    /\ st_pc = "sent"
    /\ st_pc' = "idle"
    /\ st_inputs' = NoInputs
    /\ st_fetches' = 0
    /\ st_response' = "other"
    /\ UNCHANGED <<st_context, st_generation, st_stamped_by, st_stale, st_last_build>>
    /\ UNCHANGED stamp_frame

StampNext ==
    \/ \E outcome \in IF st_context = None THEN EnsureOutcomes ELSE {"built"},
          generated \in BOOLEAN :
           \E outcome_again \in IF generated THEN {"built"} ELSE EnsureOutcomes,
              regenerated \in IF generated THEN {TRUE} ELSE BOOLEAN :
               BuildHeadersAndSend(outcome, generated, outcome_again, regenerated)
    \/ \E rebuild \in EnsureOutcomes : Response404(rebuild)
    \/ ResponseOther

StampSpec == StampInit /\ [][StampNext]_vars

\* C29: after a request of the client received a 404, no later request is
\* stamped with an id generated from the TransactionContext that was in hand
\* when the 404 arrived, also when the forced rebuild failed.
C29_NoStaleStamp ==
    (st_pc = "sent" /\ st_stamped_by # 0) => st_stamped_by \notin st_stale

\* A signed request made without a context, the first one or one after a
\* build that left none, fetches the home page to build it; a signed
\* request made with a context whose id generation succeeds fetches nothing
\* and keeps that context; a failed id generation and a 404 response each
\* cause one forced rebuild, and no other response touches the context.
ContextReusedStep ==
    /\ (st_pc = "idle" /\ st_pc' = "sent")
           => /\ st_context = None
                     => st_fetches' = (IF st_inputs'.outcome = "built" /\ ~st_inputs'.generated
                                       THEN 2 ELSE 1)
              /\ (st_context = None /\ st_inputs'.outcome = "built" /\ st_inputs'.generated)
                     => (st_context' = "context" /\ st_generation' = st_generation + 1)
              /\ (st_context # None /\ st_inputs'.generated)
                     => /\ st_fetches' = 0
                        /\ st_context' = st_context
                        /\ st_generation' = st_generation
              /\ (st_context # None /\ ~st_inputs'.generated) => st_fetches' = 1
    /\ (st_pc = "sent" /\ st_pc' = "idle")
           => /\ st_fetches' = (IF st_response' = "404" THEN 1 ELSE 0)
              /\ st_response' # "404"
                     => (st_context' = st_context /\ st_generation' = st_generation)

\* The client is constructed without a context, and its requests fetch as
\* ContextReusedStep says.
ContextReused ==
    /\ (st_response = "none" /\ st_pc = "idle") => (st_context = None /\ st_fetches = 0)
    /\ [][ContextReusedStep]_vars

\* The signed request that follows a failed build builds again.
FailedBuildRetriedStep ==
    (st_pc = "idle" /\ st_pc' = "sent" /\ st_last_build \in {"failed", "raised"})
        => st_fetches' >= 1

\* C38: the TransactionContext is not fetched when the client is
\* constructed; it is built on the first signed request; once a build has
\* succeeded every later signed request reuses that context without
\* fetching the home page or the script, until a 404 response or a failed id
\* generation forces a rebuild; a failed build is retried on the next
\* signed request.
C38_ContextReused ==
    /\ (st_response = "none" /\ st_pc = "idle") => (st_context = None /\ st_fetches = 0)
    /\ [][ContextReusedStep /\ FailedBuildRetriedStep]_vars

\* A request is out that was signed with the context built for an earlier
\* request, and nothing was fetched for it.
ContextReusedReached ==
    /\ st_pc = "sent"
    /\ st_inputs.context_before = "context"
    /\ st_inputs.generated
    /\ st_fetches = 0
    /\ st_stamped_by = st_generation
    /\ st_generation = 1
    /\ st_response = "none"

\* A forced rebuild gave up and the next request went out signed with the
\* context it was meant to replace, nothing fetched.
FailedRebuildNotRetried ==
    /\ st_pc = "sent"
    /\ st_last_build = "failed"
    /\ st_inputs.context_before = "context"
    /\ st_fetches = 0
    /\ st_stamped_by = st_generation

\* The context could not be built for the header in hand.
ContextUnavailable(inputs) == inputs.context_before = None /\ inputs.outcome # "built"

\* There was a context, generation failed, and either the forced rebuild
\* failed or generation failed again on the rebuilt context.
GenerationFailedTwice(inputs) ==
    /\ ~ContextUnavailable(inputs)
    /\ ~inputs.generated
    /\ (inputs.outcome_again # "built" \/ ~inputs.regenerated)

\* C30: when the TransactionContext cannot be built, or id generation still
\* fails after one forced rebuild, the request is sent anyway and carries no
\* x-client-transaction-id: every header construction is followed by its
\* request, unstamped in exactly these two cases and stamped from the context
\* in hand otherwise.
C30_Step ==
    st_pc = "idle"
        => /\ st_pc' = "sent"
           /\ (ContextUnavailable(st_inputs') \/ GenerationFailedTwice(st_inputs'))
                  => st_stamped_by' = 0
           /\ ~(ContextUnavailable(st_inputs') \/ GenerationFailedTwice(st_inputs'))
                  => /\ st_stamped_by' = st_generation'
                     /\ st_stamped_by' > 0
                     /\ st_context' = "context"

C30_SentUnstamped == [][C30_Step]_vars

\* There was a context, generation failed, the forced rebuild built a new
\* one, generation failed again: the request is out without an id.
C30_Witness ==
    /\ st_pc = "sent"
    /\ st_stamped_by = 0
    /\ st_inputs.context_before = "context"
    /\ ~st_inputs.generated
    /\ st_inputs.outcome_again = "built"
    /\ ~st_inputs.regenerated
    /\ st_context = "context"

-----------------------------------------------------------------------------
(* C31: the cursor chain of one crawl *)

\* A search call is made in this step.
RequestMade == Len(requests') = Len(requests) + 1

\* C31: the first search request of a crawl carries no cursor, and every
\* later request carries exactly the next_cursor of the page the request
\* before it returned, which is a non-empty value.
C31_Step ==
    RequestMade
        => IF requests = <<>>
           THEN requests'[1] = None
           ELSE /\ last_call.outcome = "page"
                /\ Truthy(page_next_cursor)
                /\ requests'[Len(requests')] = page_next_cursor

C31_CursorChain == [][C31_Step]_vars

\* Three requests were made, the second and the third with the cursors of
\* the first and the second page, which differ.
C31_Witness ==
    /\ Len(requests) = 3
    /\ requests[1] = None
    /\ requests[2] = "C2"
    /\ requests[3] = "C1"
    /\ last_call.outcome = "page"

\* The distinct non-empty cursor values the pages of this crawl have come
\* with: those the loop went on with, and the one of the page in hand.
ReturnedCursors ==
    seen_cursors \cup (IF last_call.outcome = "page" /\ Truthy(page_next_cursor)
                       THEN {page_next_cursor} ELSE {})

\* The generator has ended.
CrawlEnded == pc \in {"returned", "raised"}

\* The crawl under a scheduler that lets the generator run on.
FairSpec == Spec /\ WF_vars(Next)

\* C40: one crawl_account_keyword invocation issues at most (the number of
\* distinct non-empty cursor values the server has returned) + 1 search
\* requests, whatever the pages hold; and the crawl ends.
C40_RequestBound ==
    /\ [](Len(requests) <= Cardinality(ReturnedCursors) + 1)
    /\ [](Len(requests) <= Cardinality(seen_cursors) + 1)
    /\ [](seen_cursors \subseteq CursorValues \ {None, ""})
    /\ <>CrawlEnded

\* The server used all its cursor values on pages that were never empty,
\* never out of range and never older than the window, then repeated one:
\* the crawl made one request per value and the first one, and stopped.
C40_Witness ==
    /\ pc = "returned"
    /\ seen_cursors = CursorValues \ {None, ""}
    /\ Len(requests) = Cardinality(seen_cursors) + 1
    /\ last_call.outcome = "page"
    /\ page_next_cursor \in seen_cursors
    /\ ~reached_older_posts
    /\ empty_page_streak = 0
    /\ page_len > 0

-----------------------------------------------------------------------------
(* The page parser (post_parser.py).  A JSON value is a record tagged with  *)
(* its Python type; a dict is a function from its keys to values, with the  *)
(* order of its keys where the parser iterates over it.                     *)

Null == [t |-> "null"]
Str(s) == [t |-> "str", v |-> s]
Num(n) == [t |-> "int", n |-> n]
List(seq) == [t |-> "list", items |-> seq]
Dict(f) == [t |-> "dict", d |-> f]
ODict(keys, f) == [t |-> "dict", d |-> f, keys |-> keys]
EmptyDict == [t |-> "dict", d |-> <<>>]
EmptyList == List(<<>>)

\* The keys of a dict in the order `for key in d` visits them.
keys_of(x) ==
    IF "keys" \in DOMAIN x THEN x.keys
    ELSE CHOOSE seq \in [1..Cardinality(DOMAIN x.d) -> DOMAIN x.d] :
             \A i, j \in DOMAIN seq : i # j => seq[i] # seq[j]

\* An exception is on its way out of the parser.
Raised == [t |-> "raise"]

IsDict(x) == x.t = "dict"
IsList(x) == x.t = "list"
IsStr(x) == x.t = "str"

\* bool(x) of a JSON value.
truthy(x) ==
    CASE x.t = "null" -> FALSE
      [] x.t = "str" -> x.v # ""
      [] x.t = "int" -> x.n # 0
      [] x.t = "list" -> x.items # <<>>
      [] x.t = "dict" -> DOMAIN x.d # {}
      [] OTHER -> FALSE

\* `a or b`.
or_else(a, b) == IF a.t = "raise" THEN a ELSE IF truthy(a) THEN a ELSE b

\* x.get(key, default): AttributeError when x is not a dict.
get(x, key, default) ==
    IF ~IsDict(x) THEN Raised
    ELSE IF key \in DOMAIN x.d THEN x.d[key] ELSE default

\* The decimal digits of the numbers the payloads carry.
Digits == <<"0", "1", "2", "3", "4", "5", "6", "7", "8", "9">>

\* str(x): the text itself, the digits of a number, "None" for null.
py_str(x) ==
    CASE x.t = "str" -> x.v
      [] x.t = "int" -> Digits[x.n + 1]
      [] x.t = "null" -> "None"
      [] x.t = "dict" -> "{...}"
      [] x.t = "list" -> "[...]"
      [] OTHER -> None

\* _extract_cursor_from_entry: Str(cursor), Null, or Raised.
_extract_cursor_from_entry(entry) ==
    LET content == get(entry, "content", EmptyDict)
        cursor_type == get(content, "cursorType", Null)
        value == get(content, "value", Null)
        operation_cursor == get(get(content, "operation", EmptyDict), "cursor", EmptyDict)
        op_value == get(operation_cursor, "value", Null)
    IN  IF content.t = "raise" \/ cursor_type.t = "raise" THEN Raised
        ELSE IF cursor_type = Str("Bottom") /\ IsStr(value) /\ truthy(value) THEN value
        ELSE IF operation_cursor.t = "raise" THEN Raised
        ELSE IF IsDict(operation_cursor) /\ IsStr(op_value) /\ truthy(op_value) THEN op_value
        ELSE Null

\* The entry ids of the payloads that begin with "tweet-".
TweetEntryIds == {"tweet-101", "tweet-102"}

\* entry_id.startswith("tweet-")
startswith_tweet(entry_id) == entry_id \in TweetEntryIds

\* The created_at texts of the payloads that have the format
\* "%a %b %d %H:%M:%S %z %Y", with the hour they name (counted from the
\* model's day 0) and their UTC offset in hours.
CreatedAtTexts ==
    [ x \in {"Thu 16:00 +0000", "Fri 00:00 +0800", "Fri 15:00 +0000"} |->
        CASE x = "Thu 16:00 +0000" -> [hour |-> 16, offset |-> 0]
          [] x = "Fri 00:00 +0800" -> [hour |-> 24, offset |-> 8]
          [] x = "Fri 15:00 +0000" -> [hour |-> 39, offset |-> 0] ]

\* parse_x_created_at: the instant in UTC; ValueError (TypeError) when the
\* text has another format (is no text).
parse_x_created_at(raw) ==
    IF IsStr(raw) /\ raw.v \in DOMAIN CreatedAtTexts
    THEN Num(CreatedAtTexts[raw.v].hour - CreatedAtTexts[raw.v].offset)
    ELSE Raised

\* _unwrap_graphql_tweet, for wrappers nested up to `depth` deep.
RECURSIVE _unwrap_graphql_tweet(_, _)
_unwrap_graphql_tweet(tweet_result, depth) ==
    IF ~IsDict(tweet_result) THEN Null
    ELSE IF get(tweet_result, "__typename", Null) = Str("Tweet") THEN tweet_result
    ELSE IF depth > 0 /\ IsDict(get(tweet_result, "tweet", Null))
         THEN _unwrap_graphql_tweet(get(tweet_result, "tweet", Null), depth - 1)
    ELSE Null

\* The deepest nesting of visibility wrappers in the payloads.
MaxWrapDepth == 2

\* str(x.get("legacy", {}).get("full_text", "")) of an unwrapped tweet.
full_text_of(tweet) == get(get(tweet, "legacy", EmptyDict), "full_text", Str(""))

\* _extract_graphql_referenced_text: Str(text) or Raised.
_extract_graphql_referenced_text(tweet) ==
    LET quoted_result == get(get(tweet, "quoted_status_result", EmptyDict), "result", Null)
        quoted_tweet == _unwrap_graphql_tweet(quoted_result, MaxWrapDepth)
        retweet_result == get(get(tweet, "retweeted_status_result", EmptyDict), "result", Null)
        retweet_tweet == _unwrap_graphql_tweet(retweet_result, MaxWrapDepth)
        legacy == get(tweet, "legacy", EmptyDict)
        legacy_retweet == get(get(legacy, "retweeted_status_result", EmptyDict), "result", Null)
        legacy_retweet_tweet == _unwrap_graphql_tweet(legacy_retweet, MaxWrapDepth)
        inline_retweet == get(legacy, "retweeted_status", EmptyDict)
        inline_text == get(inline_retweet, "full_text", Str(""))
    IN  IF quoted_result.t = "raise" THEN Raised
        ELSE IF IsDict(quoted_tweet) /\ full_text_of(quoted_tweet).t = "raise" THEN Raised
        ELSE IF IsDict(quoted_tweet) /\ py_str(full_text_of(quoted_tweet)) # ""
             THEN Str(py_str(full_text_of(quoted_tweet)))
        ELSE IF retweet_result.t = "raise" THEN Raised
        ELSE IF IsDict(retweet_tweet) /\ full_text_of(retweet_tweet).t = "raise" THEN Raised
        ELSE IF IsDict(retweet_tweet) /\ py_str(full_text_of(retweet_tweet)) # ""
             THEN Str(py_str(full_text_of(retweet_tweet)))
        ELSE IF legacy.t = "raise" \/ legacy_retweet.t = "raise" THEN Raised
        ELSE IF IsDict(legacy_retweet_tweet) /\ full_text_of(legacy_retweet_tweet).t = "raise"
             THEN Raised
        ELSE IF IsDict(legacy_retweet_tweet) /\ py_str(full_text_of(legacy_retweet_tweet)) # ""
             THEN Str(py_str(full_text_of(legacy_retweet_tweet)))
        ELSE IF IsDict(inline_retweet) /\ py_str(inline_text) # "" THEN Str(py_str(inline_text))
        ELSE Str("")

\* The value a post carries when the payload has no author for it.
UnknownHandle == "unknown"

\* A handle taken as the payload has it.
handle_as_found(screen_name) == py_str(screen_name)

\* `if not account_handle: account_handle = "unknown"`
handle_or_unknown(screen_name) ==
    IF truthy(screen_name) THEN py_str(screen_name) ELSE UnknownHandle

\* A post as the parser found it.
Post(fields) == [t |-> "post", post |-> fields]

\* _tweet_to_parsed_post: Post(...), Null (the tweet is skipped) or Raised.
_tweet_to_parsed_post(tweet) ==
    LET legacy == get(tweet, "legacy", EmptyDict)
        created_raw == get(legacy, "created_at", Null)
        created_at_utc == parse_x_created_at(created_raw)
        tweet_id == py_str(or_else(or_else(get(tweet, "rest_id", Null),
                                           get(legacy, "id_str", Null)), Str("")))
        user_result == get(get(get(tweet, "core", EmptyDict), "user_results", EmptyDict),
                           "result", EmptyDict)
        screen_name == or_else(or_else(get(get(user_result, "core", EmptyDict),
                                           "screen_name", Null),
                                       get(get(user_result, "legacy", EmptyDict),
                                           "screen_name", Null)), Str(""))
        handle == handle_or_unknown(screen_name)
        quoted_text == _extract_graphql_referenced_text(tweet)
        views_obj == get(tweet, "views", EmptyDict)
        views == IF IsDict(views_obj) /\ "count" \in DOMAIN views_obj.d
                 THEN py_str(views_obj.d["count"])
                 ELSE ""
    IN  IF legacy.t = "raise" \/ created_raw.t = "raise" THEN Raised
        ELSE IF ~truthy(created_raw) THEN Null
        ELSE IF created_at_utc.t = "raise" THEN Raised
        ELSE IF tweet_id = "" THEN Null
        ELSE IF user_result.t = "raise" \/ screen_name.t = "raise" THEN Raised
        ELSE IF quoted_text.t = "raise" THEN Raised
        ELSE Post([ tweet_id |-> tweet_id,
                    account_handle |-> handle,
                    created_at_utc |-> created_at_utc.n,
                    post_time |-> isoformat(created_at_utc.n),
                    text |-> py_str(get(legacy, "full_text", Str(""))),
                    post_url |-> format_post_url(handle, tweet_id),
                    views |-> views,
                    likes |-> py_str(get(legacy, "favorite_count", Str(""))),
                    reposts |-> py_str(get(legacy, "retweet_count", Str(""))),
                    replies |-> py_str(get(legacy, "reply_count", Str(""))),
                    quoted_text |-> quoted_text.v,
                    in_reply_to_status_id |->
                        get(legacy, "in_reply_to_status_id_str", Null) ])

\* _parse_graphql_entry: Post(...), Null or Raised.
_parse_graphql_entry(entry) ==
    LET entry_id == get(entry, "entryId", Str(""))
        content == get(entry, "content", EmptyDict)
        item_content == get(content, "itemContent", EmptyDict)
        tweet_result == get(get(item_content, "tweet_results", EmptyDict), "result", Null)
        tweet == _unwrap_graphql_tweet(tweet_result, MaxWrapDepth)
    IN  IF entry_id.t = "raise" THEN Raised
        ELSE IF ~startswith_tweet(py_str(entry_id)) THEN Null
        ELSE IF tweet_result.t = "raise" THEN Raised
        ELSE IF ~IsDict(tweet) THEN Null
        ELSE _tweet_to_parsed_post(tweet)

\* A SearchPage, or the exception that left the parser.
SearchPage(posts, next_cursor) == [t |-> "page", posts |-> posts, next_cursor |-> next_cursor]

\* The same turn in a parser that keeps the first cursor it finds.
graphql_entry_step_first_wins(page, entry) ==
    LET parsed == _parse_graphql_entry(entry)
        found == _extract_cursor_from_entry(entry)
    IN  IF page.t = "raise" \/ parsed.t = "raise" \/ found.t = "raise" THEN Raised
        ELSE SearchPage(IF parsed.t = "post" THEN Append(page.posts, parsed.post)
                                             ELSE page.posts,
                        IF truthy(found) /\ page.next_cursor = None
                        THEN found.v ELSE page.next_cursor)

\* One turn of `for entry in entries` of the GraphQL parser: the page so far
\* with the post and the cursor of this entry.
graphql_entry_step(page, entry) ==
    LET parsed == _parse_graphql_entry(entry)
        found == _extract_cursor_from_entry(entry)
    IN  IF page.t = "raise" \/ parsed.t = "raise" \/ found.t = "raise" THEN Raised
        ELSE SearchPage(IF parsed.t = "post" THEN Append(page.posts, parsed.post)
                                             ELSE page.posts,
                        IF truthy(found) THEN found.v ELSE page.next_cursor)

RECURSIVE graphql_entries(_, _, _)
graphql_entries(page, entries, i) ==
    IF i > Len(entries) THEN page
    ELSE graphql_entries(graphql_entry_step(page, entries[i]), entries, i + 1)

\* One turn of `for instruction in instructions` of the GraphQL parser.
graphql_instruction_step(page, instruction) ==
    LET entries == get(instruction, "entries", Null)
        after_entries == IF IsList(entries) THEN graphql_entries(page, entries.items, 1)
                                            ELSE page
        entry == get(instruction, "entry", Null)
        found == _extract_cursor_from_entry(entry)
    IN  IF page.t = "raise" \/ entries.t = "raise" \/ after_entries.t = "raise" THEN Raised
        ELSE IF ~IsDict(entry) THEN after_entries
        ELSE IF found.t = "raise" THEN Raised
        ELSE SearchPage(after_entries.posts,
                        IF truthy(found) THEN found.v ELSE after_entries.next_cursor)

RECURSIVE graphql_instructions(_, _, _)
graphql_instructions(page, instructions, i) ==
    IF i > Len(instructions) THEN page
    ELSE graphql_instructions(graphql_instruction_step(page, instructions[i]),
                              instructions, i + 1)

\* _parse_graphql_search_page
_parse_graphql_search_page(payload) ==
    LET timeline == get(get(get(get(payload, "data", EmptyDict),
                                "search_by_raw_query", EmptyDict),
                            "search_timeline", EmptyDict), "timeline", EmptyDict)
        instructions == get(timeline, "instructions", EmptyList)
    IN  IF ~IsList(instructions) THEN Raised
        ELSE graphql_instructions(SearchPage(<<>>, None), instructions.items, 1)

\* The quoted or retweeted text of a legacy tweet: Str(text) or Raised.
legacy_referenced_text(tweet, tweets) ==
    LET quoted_id == py_str(or_else(get(tweet, "quoted_status_id_str", Null), Str("")))
        quoted == IF quoted_id # "" /\ quoted_id \in DOMAIN tweets.d
                  THEN get(tweets.d[quoted_id], "full_text", Str(""))
                  ELSE Str("")
        retweet_id == py_str(or_else(get(tweet, "retweeted_status_id_str", Null), Str("")))
        retweeted == IF retweet_id # "" /\ retweet_id \in DOMAIN tweets.d
                     THEN get(tweets.d[retweet_id], "full_text", Str(""))
                     ELSE Str("")
        retweeted_status == get(tweet, "retweeted_status", EmptyDict)
        inline_text == IF IsDict(retweeted_status)
                       THEN get(retweeted_status, "full_text", Str(""))
                       ELSE Str("")
        retweeted_status_result ==
            get(get(tweet, "retweeted_status_result", EmptyDict), "result", EmptyDict)
        result_text == IF IsDict(retweeted_status_result)
                       THEN get(get(retweeted_status_result, "legacy", EmptyDict),
                                "full_text", Str(""))
                       ELSE Str("")
    IN  IF quoted.t = "raise" THEN Raised
        ELSE IF py_str(quoted) # "" THEN Str(py_str(quoted))
        ELSE IF retweeted.t = "raise" THEN Raised
        ELSE IF py_str(retweeted) # "" THEN Str(py_str(retweeted))
        ELSE IF py_str(inline_text) # "" THEN Str(py_str(inline_text))
        ELSE IF retweeted_status_result.t = "raise" \/ result_text.t = "raise" THEN Raised
        ELSE Str(py_str(result_text))

\* One turn of `for tweet_id, tweet in tweets.items()`: the posts so far
\* with the post of this tweet, or Raised.
legacy_tweet_step(posts, key, tweet, tweets, users) ==
    LET created_raw == get(tweet, "created_at", Null)
        created_at_utc == parse_x_created_at(created_raw)
        user_id == py_str(or_else(or_else(get(tweet, "user_id_str", Null),
                                          get(tweet, "user_id", Null)), Str("")))
        user == IF user_id \in DOMAIN users.d THEN users.d[user_id] ELSE EmptyDict
        screen_name == get(user, "screen_name", Str(UnknownHandle))
        handle == py_str(screen_name)
        quoted_text == legacy_referenced_text(tweet, tweets)
        ext_views == get(tweet, "ext_views", EmptyDict)
        views == IF IsDict(ext_views) /\ "count" \in DOMAIN ext_views.d
                 THEN py_str(ext_views.d["count"])
                 ELSE ""
        tweet_id == py_str(or_else(get(tweet, "id_str", Null), Str(key)))
    IN  IF posts.t = "raise" \/ created_raw.t = "raise" THEN Raised
        ELSE IF ~truthy(created_raw) THEN posts
        ELSE IF created_at_utc.t = "raise" \/ screen_name.t = "raise" THEN Raised
        ELSE IF quoted_text.t = "raise" THEN Raised
        ELSE List(Append(posts.items,
                    [ tweet_id |-> tweet_id,
                      account_handle |-> handle,
                      created_at_utc |-> created_at_utc.n,
                      post_time |-> isoformat(created_at_utc.n),
                      text |-> py_str(get(tweet, "full_text", Str(""))),
                      post_url |-> format_post_url(handle, tweet_id),
                      views |-> views,
                      likes |-> py_str(get(tweet, "favorite_count", Str(""))),
                      reposts |-> py_str(get(tweet, "retweet_count", Str(""))),
                      replies |-> py_str(get(tweet, "reply_count", Str(""))),
                      quoted_text |-> quoted_text.v,
                      in_reply_to_status_id |->
                          get(tweet, "in_reply_to_status_id_str", Null) ]))

RECURSIVE legacy_tweets(_, _, _, _)
legacy_tweets(posts, tweets, users, i) ==
    IF i > Len(keys_of(tweets)) THEN posts
    ELSE legacy_tweets(legacy_tweet_step(posts, keys_of(tweets)[i],
                                         tweets.d[keys_of(tweets)[i]], tweets, users),
                       tweets, users, i + 1)

\* One turn of `for entry in entries` of the legacy parser: the cursor so
\* far (Null or Str(text)), or Raised.
legacy_entry_step(next_cursor, entry) ==
    LET found == _extract_cursor_from_entry(entry)
    IN  IF next_cursor.t = "raise" \/ found.t = "raise" THEN Raised
        ELSE IF truthy(found) THEN found ELSE next_cursor

RECURSIVE legacy_entries(_, _, _)
legacy_entries(next_cursor, entries, i) ==
    IF i > Len(entries) THEN next_cursor
    ELSE legacy_entries(legacy_entry_step(next_cursor, entries[i]), entries, i + 1)

RECURSIVE legacy_instructions(_, _, _)
legacy_instructions(next_cursor, instructions, i) ==
    IF i > Len(instructions) THEN next_cursor
    ELSE LET entries == get(get(instructions[i], "addEntries", EmptyDict),
                            "entries", EmptyList)
         IN  IF next_cursor.t = "raise" \/ ~IsList(entries) THEN Raised
             ELSE legacy_instructions(legacy_entries(next_cursor, entries.items, 1),
                                      instructions, i + 1)

\* _parse_legacy_search_page
_parse_legacy_search_page(payload) ==
    LET tweets == get(get(payload, "globalObjects", EmptyDict), "tweets", EmptyDict)
        users == get(get(payload, "globalObjects", EmptyDict), "users", EmptyDict)
        posts == legacy_tweets(EmptyList, tweets, users, 1)
        instructions == get(get(payload, "timeline", EmptyDict), "instructions", EmptyList)
        next_cursor == legacy_instructions(Null, instructions.items, 1)
    IN  IF ~IsDict(tweets) \/ ~IsDict(users) THEN Raised
        ELSE IF posts.t = "raise" THEN Raised
        ELSE IF ~IsList(instructions) THEN Raised
        ELSE IF next_cursor.t = "raise" THEN Raised
        ELSE SearchPage(posts.items, IF IsStr(next_cursor) THEN next_cursor.v ELSE None)

\* parse_search_page: `"data" in payload` tells the shapes apart.
parse_search_page(payload) ==
    IF "data" \in DOMAIN payload.d
    THEN _parse_graphql_search_page(payload)
    ELSE _parse_legacy_search_page(payload)

-----------------------------------------------------------------------------
(* Payloads with cursor entries *)

\* An entry with content.cursorType and content.value.
CursorEntry(cursor_type, value) ==
    Dict([entryId |-> Str("cursor-0"),
          content |-> Dict([cursorType |-> Str(cursor_type), value |-> value])])

\* An entry with content.operation.cursor.value.
OperationCursorEntry(value) ==
    Dict([entryId |-> Str("cursor-1"),
          content |-> Dict([operation |-> Dict([cursor |-> Dict([value |-> value])])])])

\* The entries of the payloads: three that carry a cursor, three that do
\* not (a top cursor, an empty value, a value that is no text).
PayloadEntries ==
    { CursorEntry("Bottom", Str("B1")),
      CursorEntry("Bottom", Str("B2")),
      OperationCursorEntry(Str("O1")),
      CursorEntry("Top", Str("T1")),
      CursorEntry("Bottom", Str("")),
      OperationCursorEntry(Num(7)) }

SingleEntries ==
    { CursorEntry("Bottom", Str("B2")), OperationCursorEntry(Str("O1")),
      CursorEntry("Top", Str("T1")) }

EntryLists == UNION { [1..n -> PayloadEntries] : n \in 0..2 }

\* GraphQL instructions: `entries`, or `entries` and a single `entry`.
GraphqlInstructions ==
    { Dict([entries |-> List(entries)]) : entries \in EntryLists }
        \cup { Dict([entries |-> List(entries), entry |-> entry]) :
                   entries \in EntryLists, entry \in SingleEntries }

\* Legacy instructions: addEntries.entries.
LegacyInstructions ==
    { Dict([addEntries |-> Dict([entries |-> List(entries)])]) : entries \in EntryLists }

GraphqlPayload(instructions) ==
    Dict([data |-> Dict([search_by_raw_query |-> Dict([search_timeline |->
              Dict([timeline |-> Dict([instructions |-> List(instructions)])])])])])

LegacyPayload(tweets, users, instructions) ==
    Dict([globalObjects |-> Dict([tweets |-> tweets, users |-> users]),
          timeline |-> Dict([instructions |-> List(instructions)])])

NoTweets == ODict(<<>>, <<>>)

CursorPayloads ==
    { GraphqlPayload(instructions) :
          instructions \in UNION { [1..n -> GraphqlInstructions] : n \in 0..2 } }
        \cup { LegacyPayload(NoTweets, EmptyDict, instructions) :
                   instructions \in UNION { [1..n -> LegacyInstructions] : n \in 0..2 } }

\* A function with the keys of f and of g, g's value where both have one.
Merge(f, g) ==
    [k \in DOMAIN f \cup DOMAIN g |-> IF k \in DOMAIN g THEN g[k] ELSE f[k]]

\* [key |-> value] when the field is present, nothing otherwise.
Field(present, key, value) == IF present THEN [k \in {key} |-> value] ELSE <<>>

\* One post as the platform has it, whatever the shape of the payload.
PostDescriptions ==
    [ created_at : DOMAIN CreatedAtTexts,
      author : {"absent", "core", "legacy"},
      has_text : BOOLEAN,
      has_counts : BOOLEAN,
      is_reply : BOOLEAN,
      referenced : {"none", "quoted", "retweeted"},
      has_views : BOOLEAN,
      wrapped : BOOLEAN ]

\* The tweet object both shapes carry for the post.
TweetFields(desc) ==
    Merge(Merge(Merge([created_at |-> Str(desc.created_at), id_str |-> Str("101")],
                      Field(desc.has_text, "full_text", Str("hello"))),
                IF desc.has_counts
                THEN [favorite_count |-> Num(3), retweet_count |-> Num(0),
                      reply_count |-> Num(1)]
                ELSE <<>>),
          Field(desc.is_reply, "in_reply_to_status_id_str", Str("55")))

\* The post in the GraphQL shape.
GraphqlTweet(desc) ==
    LET user == IF desc.author = "core"
                THEN Dict([core |-> Dict([screen_name |-> Str("alice")])])
                ELSE Dict([legacy |-> Dict([screen_name |-> Str("alice")])])
        referenced == Dict([result |-> Dict([__typename |-> Str("Tweet"),
                                             legacy |-> Dict([full_text |-> Str("other")])])])
    IN  Dict(Merge(Merge(Merge(
            [__typename |-> Str("Tweet"), rest_id |-> Str("101"),
             legacy |-> Dict(TweetFields(desc))],
            Field(desc.author # "absent", "core",
                  Dict([user_results |-> Dict([result |-> user])]))),
            Field(desc.referenced # "none",
                  IF desc.referenced = "quoted" THEN "quoted_status_result"
                                                ELSE "retweeted_status_result",
                  referenced)),
            Field(desc.has_views, "views", Dict([count |-> Str("9")]))))

GraphqlPostPayload(desc) ==
    LET wrapped_result == IF desc.wrapped
                  THEN Dict([__typename |-> Str("TweetWithVisibilityResults"),
                             tweet |-> GraphqlTweet(desc)])
                  ELSE GraphqlTweet(desc)
        entry == Dict([entryId |-> Str("tweet-101"),
                       content |-> Dict([itemContent |->
                           Dict([tweet_results |-> Dict([result |-> wrapped_result])])])])
    IN  GraphqlPayload(<<Dict([entries |-> List(<<entry>>)])>>)

\* The post in the legacy shape; the post it quotes or retweets is in
\* globalObjects.tweets without a date of its own.
LegacyPostPayload(desc) ==
    LET tweet == Dict(Merge(Merge(TweetFields(desc),
                     Field(desc.author # "absent", "user_id_str", Str("7"))),
                     Field(desc.referenced # "none",
                           IF desc.referenced = "quoted" THEN "quoted_status_id_str"
                                                         ELSE "retweeted_status_id_str",
                           Str("100"))))
        other == Dict([id_str |-> Str("100"), full_text |-> Str("other")])
        tweets == IF desc.referenced = "none"
                  THEN ODict(<<"101">>, [k \in {"101"} |-> tweet])
                  ELSE ODict(<<"101", "100">>,
                             [k \in {"101", "100"} |-> IF k = "101" THEN tweet ELSE other])
        users == IF desc.author = "absent" THEN EmptyDict
                 ELSE Dict([k \in {"7"} |-> Dict([screen_name |-> Str("alice")])])
    IN  LegacyPayload(tweets, users, <<>>)

\* The same post parsed from the GraphQL and then from the legacy shape.
SamePostRuns ==
    { <<GraphqlPostPayload(desc), LegacyPostPayload(desc)>> : desc \in PostDescriptions }

\* A post with every field, as the entries around a malformed one carry it.
FullPost ==
    [created_at |-> "Thu 16:00 +0000", author |-> "core", has_text |-> TRUE,
     has_counts |-> TRUE, is_reply |-> FALSE, referenced |-> "none", has_views |-> TRUE,
     wrapped |-> FALSE]

\* A GraphQL entry "tweet-102" around the given content.
TweetEntry(content) == Dict([entryId |-> Str("tweet-102"), content |-> content])

\* The content of a GraphQL entry around the given tweet result.
ContentOf(tweet_result) ==
    Dict([itemContent |-> Dict([tweet_results |-> Dict([result |-> tweet_result])])])

\* GraphQL entries of a post with fields missing or of a shape the parser
\* does not know.
MalformedEntries ==
    { Dict([entryId |-> Str("tweet-102")]),
      TweetEntry(EmptyDict),
      TweetEntry(Dict([itemContent |-> EmptyDict])),
      TweetEntry(Dict([itemContent |-> Dict([tweet_results |-> EmptyDict])])),
      TweetEntry(ContentOf(Null)),
      TweetEntry(ContentOf(Str("gone"))),
      TweetEntry(ContentOf(Dict([__typename |-> Str("TweetTombstone")]))),
      TweetEntry(ContentOf(Dict([__typename |-> Str("TweetWithVisibilityResults"),
                                 tweet |-> Null]))),
      TweetEntry(ContentOf(Dict([__typename |-> Str("Tweet"), rest_id |-> Str("102")]))),
      TweetEntry(ContentOf(Dict([__typename |-> Str("Tweet"), rest_id |-> Str("102"),
                                 legacy |-> Dict([full_text |-> Str("hello")])]))),
      TweetEntry(ContentOf(Dict([__typename |-> Str("Tweet"),
                                 legacy |-> Dict([created_at |-> Str("Thu 16:00 +0000")])]))),
      TweetEntry(Null),
      TweetEntry(Dict([itemContent |-> Null])),
      TweetEntry(ContentOf(Dict([__typename |-> Str("Tweet"), rest_id |-> Str("102"),
                                 legacy |-> Null]))) }

\* Legacy tweets with fields missing or of a shape the parser does not know.
MalformedTweets ==
    { EmptyDict,
      Dict([id_str |-> Str("102"), full_text |-> Str("hello")]),
      Dict([id_str |-> Str("102"), created_at |-> Null]),
      Null }

GoodEntry ==
    Dict([entryId |-> Str("tweet-101"), content |-> ContentOf(GraphqlTweet(FullPost))])

\* A page with one malformed post before or after a well-formed one.
MalformedPayloads ==
    { GraphqlPayload(<<Dict([entries |-> List(<<entry, GoodEntry>>)])>>) :
          entry \in MalformedEntries }
      \cup { GraphqlPayload(<<Dict([entries |-> List(<<GoodEntry, entry>>)])>>) :
                 entry \in MalformedEntries }
      \cup { LegacyPayload(
                 ODict(keys, [k \in {"101", "102"} |->
                                 IF k = "102" THEN tweet
                                 ELSE LegacyPostPayload(FullPost)
                                          .d["globalObjects"].d["tweets"].d["101"]]),
                 LegacyPostPayload(FullPost).d["globalObjects"].d["users"], <<>>) :
                 tweet \in MalformedTweets, keys \in {<<"101", "102">>, <<"102", "101">>} }

\* The payloads parsed in one run, in order.
PayloadRuns ==
    { <<payload>> : payload \in CursorPayloads \cup MalformedPayloads } \cup SamePostRuns

ParserInit ==
    /\ NoCore
    /\ NoRateLimit
    /\ NoVerify
    /\ NoSession
    /\ NoTxn
    /\ NoStamp
    /\ NoMain
    /\ NoLifecycle
    /\ NoBackoff
    /\ parser_input \in PayloadRuns
    /\ parser_output = <<>>

\* parse_search_page(payload) on the next payload.
ParseSearchPage ==
    /\ Len(parser_output) < Len(parser_input)
    /\ parser_output' =
           Append(parser_output, parse_search_page(parser_input[Len(parser_output) + 1]))
    /\ UNCHANGED parser_input
    /\ UNCHANGED parser_frame

ParserNext == ParseSearchPage

ParserSpec == ParserInit /\ [][ParserNext]_vars

\* The entry carries a cursor: cursorType "Bottom" with a non-empty text
\* value, or a non-empty text at operation.cursor.value.
CarriesCursor(entry) ==
    LET content == entry.d["content"].d
    IN  \/ /\ "cursorType" \in DOMAIN content
           /\ content["cursorType"] = Str("Bottom")
           /\ IsStr(content["value"]) /\ content["value"].v # ""
        \/ /\ "operation" \in DOMAIN content
           /\ IsStr(content["operation"].d["cursor"].d["value"])
           /\ content["operation"].d["cursor"].d["value"].v # ""

CursorCarried(entry) ==
    LET content == entry.d["content"].d
    IN  IF "cursorType" \in DOMAIN content
        THEN content["value"].v
        ELSE content["operation"].d["cursor"].d["value"].v

\* The entries of an instruction in order: its list, then its single entry.
EntriesOfInstruction(instruction) ==
    IF "addEntries" \in DOMAIN instruction.d
    THEN instruction.d["addEntries"].d["entries"].items
    ELSE instruction.d["entries"].items
             \o (IF "entry" \in DOMAIN instruction.d THEN <<instruction.d["entry"]>>
                                                     ELSE <<>>)

InstructionsOf(payload) ==
    IF "data" \in DOMAIN payload.d
    THEN payload.d["data"].d["search_by_raw_query"].d["search_timeline"].d["timeline"]
             .d["instructions"].items
    ELSE payload.d["timeline"].d["instructions"].items

RECURSIVE Flatten(_)
Flatten(seqs) == IF seqs = <<>> THEN <<>> ELSE Head(seqs) \o Flatten(Tail(seqs))

\* Every entry of the payload, in instruction and entry order.
EntriesInOrder(payload) ==
    Flatten([i \in DOMAIN InstructionsOf(payload) |->
                 EntriesOfInstruction(InstructionsOf(payload)[i])])

\* The positions, in that order, of the entries that carry a cursor.
CursorPositions(payload) ==
    { i \in DOMAIN EntriesInOrder(payload) : CarriesCursor(EntriesInOrder(payload)[i]) }

\* The payload is one of those with cursor entries only.
IsCursorPayload(payload) == payload \in CursorPayloads

\* C32: the next_cursor of a parsed page is the cursor of the last entry, in
\* instruction and entry order, that carries one, in the GraphQL and in the
\* legacy shape; it is absent when no entry carries one.
C32_LastCursorWins ==
    \A k \in DOMAIN parser_output :
        IsCursorPayload(parser_input[k])
            => LET positions == CursorPositions(parser_input[k])
                   last == CHOOSE i \in positions : \A j \in positions : j <= i
               IN  /\ parser_output[k].t = "page"
                   /\ parser_output[k].next_cursor =
                          IF positions = {} THEN None
                          ELSE CursorCarried(EntriesInOrder(parser_input[k])[last])

\* A GraphQL payload whose first instruction carries the cursor O1 and
\* whose second carries B1 in its list and B2 in its single entry: B2 wins.
C32_Witness ==
    /\ Len(parser_output) = 1
    /\ parser_input[1] \in CursorPayloads
    /\ "data" \in DOMAIN parser_input[1].d
    /\ Cardinality(CursorPositions(parser_input[1])) = 3
    /\ Len(InstructionsOf(parser_input[1])) = 2
    /\ "entry" \in DOMAIN InstructionsOf(parser_input[1])[2].d
    /\ parser_output[1].next_cursor = "B2"
    /\ EntriesInOrder(parser_input[1])[1] = OperationCursorEntry(Str("O1"))

\* Two cursors in a legacy payload, the later one wins.
C32_WitnessLegacy ==
    /\ Len(parser_output) = 1
    /\ parser_input[1] \in CursorPayloads
    /\ "data" \notin DOMAIN parser_input[1].d
    /\ Cardinality(CursorPositions(parser_input[1])) = 2
    /\ parser_output[1].next_cursor = "O1"

\* The fields of a ParsedPost that both shapes carry.
SharedFields ==
    {"tweet_id", "account_handle", "created_at_utc", "post_time", "text", "post_url",
     "likes", "reposts", "replies", "quoted_text", "in_reply_to_status_id"}

C34_MalformedPostSkipped ==
    \A k \in DOMAIN parser_output :
        parser_input[k] \in MalformedPayloads
            => /\ parser_output[k].t = "page"
               /\ Len(parser_output[k].posts) = 1
               /\ parser_output[k].posts[1].tweet_id = "101"

\* The entries and tweets with a key missing, or with a tweet result that
\* is no Tweet object: the parser has an answer for each of them.
HandledPayloads ==
    { payload \in MalformedPayloads : parse_search_page(payload).t = "page" }

-----------------------------------------------------------------------------
(* main() of run.py up to the first network work: the validation of the     *)
(* command line and of the input files.                                     *)

\* The dates on the command line: a text that parse_cli_date accepts, with
\* the day it names, or a text it rejects.
CliDates == {"2021_9_1", "2021_9_30", "2021-09-01"}

\* parse_cli_date: the day, or NoNumber for ValueError.
parse_cli_date(raw) ==
    CASE raw = "2021_9_1" -> 1
      [] raw = "2021_9_30" -> 30
      [] OTHER -> NoNumber

\* _HANDLE_RE: one to fifteen letters, digits or underscores.
MaxHandleLen == 15
HandleChars == {"a", "B", "7", "_"}
handle_matches(handle) ==
    /\ Len(handle) >= 1
    /\ Len(handle) <= MaxHandleLen
    /\ \A i \in DOMAIN handle : handle[i] \in HandleChars

LongHandle == [i \in 1..(MaxHandleLen + 1) |-> "a"]

\* The lines of an accounts file: a blank line, a comment, or a URL as
\* urlparse splits it (scheme, netloc, first segment of the path).
AccountLines ==
    { [kind |-> "blank"],
      [kind |-> "comment"],
      [kind |-> "url", scheme |-> "https", netloc |-> "x.com", handle |-> <<"a", "_", "7">>],
      [kind |-> "url", scheme |-> "http", netloc |-> "WWW.Twitter.com", handle |-> <<"B">>],
      [kind |-> "url", scheme |-> "ftp", netloc |-> "x.com", handle |-> <<"a">>],
      [kind |-> "url", scheme |-> "https", netloc |-> "example.com", handle |-> <<"a">>],
      [kind |-> "url", scheme |-> "https", netloc |-> "x.com", handle |-> <<>>],
      [kind |-> "url", scheme |-> "https", netloc |-> "x.com", handle |-> <<"a", "-">>],
      [kind |-> "url", scheme |-> "https", netloc |-> "x.com", handle |-> LongHandle] }

\* netloc.lower() in {"x.com", ...}
AllowedHosts == {"x.com", "www.x.com", "twitter.com", "www.twitter.com", "WWW.Twitter.com"}

\* _extract_handle: TRUE when it returns a handle, FALSE for ValueError.
extract_handle_ok(line) ==
    /\ line.scheme \in {"http", "https"}
    /\ line.netloc \in AllowedHosts
    /\ line.handle # <<>>
    /\ handle_matches(line.handle)

\* _iter_clean_lines
clean_lines(lines) == SelectSeq(lines, LAMBDA line : line.kind \notin {"blank", "comment"})

\* load_accounts: the handles in order without duplicates, or Raised when a
\* line is rejected.
RECURSIVE load_accounts_from(_, _, _)
load_accounts_from(lines, i, acc) ==
    IF i > Len(lines) THEN List(acc)
    ELSE IF ~extract_handle_ok(lines[i]) THEN Raised
    ELSE IF \E j \in DOMAIN acc : casefold(acc[j]) = casefold(lines[i].handle)
         THEN load_accounts_from(lines, i + 1, acc)
    ELSE load_accounts_from(lines, i + 1, Append(acc, lines[i].handle))

load_accounts(lines) == load_accounts_from(clean_lines(lines), 1, <<>>)

\* The lines of a keywords file: blank, comment, a rule, or separators only.
KeywordLines ==
    { [kind |-> "blank"], [kind |-> "comment"],
      [kind |-> "rule", parts |-> <<"ab", "c">>],
      [kind |-> "rule", parts |-> <<>>] }

\* load_keywords: the rules that have a part left after normalisation.
load_keywords(lines) ==
    SelectSeq(clean_lines(lines), LAMBDA line : line.parts # <<>>)

\* A file that does not exist.
MissingInputFile == <<[kind |-> "missing"]>>

AccountFiles == {MissingInputFile} \cup UNION { [1..n -> AccountLines] : n \in 0..2 }
KeywordFiles == {MissingInputFile} \cup UNION { [1..n -> KeywordLines] : n \in 0..1 }

MainInputs ==
    [ accounts_mode : BOOLEAN,
      start : CliDates,
      end : CliDates,
      cookies_pool_file : BOOLEAN,
      accounts_file : AccountFiles,
      keys_file : KeywordFiles ]

MainInit ==
    /\ NoCore
    /\ NoRateLimit
    /\ NoVerify
    /\ NoSession
    /\ NoTxn
    /\ NoStamp
    /\ NoParser
    /\ NoLifecycle
    /\ NoBackoff
    /\ main_pc = "arguments"
    /\ main_input \in MainInputs
    /\ main_exit = NoNumber
    /\ main_raised = None
    /\ main_effects = <<>>

\* `return 2`
ReturnTwo ==
    /\ main_pc' = "returned"
    /\ main_exit' = 2
    /\ UNCHANGED <<main_raised, main_effects>>

\* An exception leaves main.
RaiseOut(exception) ==
    /\ main_pc' = "raised"
    /\ main_raised' = exception
    /\ UNCHANGED <<main_exit, main_effects>>

\* Lines 483-504: the accounts mode, the two dates, their order, the pool
\* file option.
CheckArguments ==
    /\ main_pc = "arguments"
    /\ IF \/ main_input.accounts_mode
          \/ parse_cli_date(main_input.start) = NoNumber
          \/ parse_cli_date(main_input.end) = NoNumber
          \/ parse_cli_date(main_input.start) > parse_cli_date(main_input.end)
          \/ main_input.cookies_pool_file
       THEN ReturnTwo
       ELSE /\ main_pc' = "inputs"
            /\ UNCHANGED <<main_exit, main_raised, main_effects>>
    /\ UNCHANGED main_input
    /\ UNCHANGED main_frame

\* Lines 506-513: the two input files are read and loaded.
LoadInputs ==
    /\ main_pc = "inputs"
    /\ IF main_input.accounts_file = MissingInputFile THEN RaiseOut("FileNotFoundError")
       ELSE IF load_accounts(main_input.accounts_file).t = "raise" THEN RaiseOut("ValueError")
       ELSE IF main_input.keys_file = MissingInputFile THEN RaiseOut("FileNotFoundError")
       ELSE IF load_accounts(main_input.accounts_file).items = <<>> THEN ReturnTwo
       ELSE IF load_keywords(main_input.keys_file) = <<>> THEN ReturnTwo
       ELSE /\ main_pc' = "output"
            /\ UNCHANGED <<main_exit, main_raised, main_effects>>
    /\ UNCHANGED main_input
    /\ UNCHANGED main_frame

\* Lines 515-525: the writer creates the run directory and the log file.
OpenOutput ==
    /\ main_pc = "output"
    /\ main_effects' = Append(main_effects, "output file")
    /\ main_pc' = "cookies"
    /\ UNCHANGED <<main_input, main_exit, main_raised>>
    /\ UNCHANGED main_frame

\* Line 527: ensure_cookies, with its probe or login; the crawl follows.
EnsureCookies ==
    /\ main_pc = "cookies"
    /\ main_effects' = Append(main_effects, "cookie probe")
    /\ main_pc' = "crawling"
    /\ UNCHANGED <<main_input, main_exit, main_raised>>
    /\ UNCHANGED main_frame

MainNext ==
    \/ CheckArguments
    \/ LoadInputs
    \/ OpenOutput
    \/ EnsureCookies

MainSpec == MainInit /\ [][MainNext]_vars

\* A date is malformed.
MalformedDate(input) ==
    parse_cli_date(input.start) = NoNumber \/ parse_cli_date(input.end) = NoNumber

\* An account line has a bad scheme, host or handle.
BadAccountLine(input) ==
    /\ input.accounts_file # MissingInputFile
    /\ \E i \in DOMAIN input.accounts_file :
           /\ input.accounts_file[i].kind = "url"
           /\ ~extract_handle_ok(input.accounts_file[i])

\* A file has no line left after filtering.
EmptyAfterFiltering(file) ==
    /\ file # MissingInputFile
    /\ \A i \in DOMAIN file :
           \/ file[i].kind \in {"blank", "comment"}
           \/ (file[i].kind = "rule" /\ file[i].parts = <<>>)

\* The input fails one of the validations.
InvalidInput(input) ==
    \/ input.accounts_mode
    \/ MalformedDate(input)
    \/ (~MalformedDate(input) /\ parse_cli_date(input.start) > parse_cli_date(input.end))
    \/ input.cookies_pool_file
    \/ input.accounts_file = MissingInputFile
    \/ input.keys_file = MissingInputFile
    \/ BadAccountLine(input)
    \/ EmptyAfterFiltering(input.accounts_file)
    \/ EmptyAfterFiltering(input.keys_file)

\* main is over or has reached the crawl.
MainSettled == main_pc \in {"returned", "raised", "crawling"}

\* C35: every input-validation failure makes main return exit code 2 before
\* any cookie probe, login or search request is made and before any output
\* file is created.
C35_InvalidInputExitsTwo ==
    (MainSettled /\ InvalidInput(main_input))
        => /\ main_pc = "returned"
           /\ main_exit = 2
           /\ main_effects = <<>>

\* What the code does: an invalid input never gets as far as an output file
\* or a probe; main returns 2, or an exception leaves it.
InvalidInputStopsEarly ==
    InvalidInput(main_input)
        => /\ main_effects = <<>>
           /\ main_pc \in {"arguments", "inputs", "returned", "raised"}
           /\ main_pc = "returned" => main_exit = 2
-----------------------------------------------------------------------------
(* The clients and the writer of main(): lines 528-579 of run.py.           *)

\* The number of (account, keyword) pairs of a run.
MaxPairs == 2

\* A refresh that leaves the old client open.
closed_after_refresh_unchanged(closed, client) == closed

\* `client.close()` before `client = XProtocolClient(cookies=cookies, ...)`.
closed_after_refresh(closed, client) == closed \cup {client}

LifecycleInit ==
    /\ NoCore
    /\ NoRateLimit
    /\ NoVerify
    /\ NoSession
    /\ NoTxn
    /\ NoStamp
    /\ NoParser
    /\ NoMain
    /\ NoBackoff
    /\ lc_pc = "first"
    /\ lc_pairs_left \in 1..MaxPairs
    /\ lc_client = 1
    /\ lc_crawl_client = 1
    /\ lc_closed = {}
    /\ lc_writer_closed = FALSE
    /\ lc_requests = {}
    /\ lc_end = ""
    /\ lc_error_records = 0

\* The crawler of the running _crawl_keyword call sends a search request on
\* its client.
CrawlerSendsRequest ==
    /\ lc_pc \in {"first", "retry"}
    /\ lc_requests' = lc_requests \cup
           {[client |-> lc_crawl_client,
             open |-> lc_crawl_client \notin lc_closed,
             older_closed |-> \A c \in 1..(lc_crawl_client - 1) : c \in lc_closed]}
    /\ UNCHANGED <<lc_pc, lc_pairs_left, lc_client, lc_crawl_client, lc_closed,
                   lc_writer_closed, lc_end, lc_error_records>>
    /\ UNCHANGED lifecycle_frame

\* The pair is finished: the first call of the next pair with the client in
\* hand, or the end of the loops.
PairFinished ==
    /\ lc_pairs_left' = lc_pairs_left - 1
    /\ IF lc_pairs_left = 1
       THEN /\ lc_pc' = "finally"
            /\ lc_end' = "done"
            /\ UNCHANGED lc_crawl_client
       ELSE /\ lc_pc' = "first"
            /\ lc_crawl_client' = lc_client
            /\ UNCHANGED lc_end
    /\ UNCHANGED <<lc_client, lc_closed, lc_writer_closed, lc_requests>>
    /\ UNCHANGED lifecycle_frame

\* _crawl_keyword returns.
CrawlReturns ==
    /\ lc_pc \in {"first", "retry"}
    /\ UNCHANGED lc_error_records
    /\ PairFinished

\* The first call of the pair raises AuthenticationError: refresh_cookies.
FirstCallRaisesAuthentication ==
    /\ lc_pc = "first"
    /\ lc_pc' = "refresh"
    /\ UNCHANGED <<lc_pairs_left, lc_client, lc_crawl_client, lc_closed, lc_writer_closed,
                   lc_requests, lc_end, lc_error_records>>
    /\ UNCHANGED lifecycle_frame

\* refresh_cookies returns: the client is closed, a new one is built and
\* handed to the second _crawl_keyword call.
RefreshReturns ==
    /\ lc_pc = "refresh"
    /\ lc_closed' = closed_after_refresh(lc_closed, lc_client)
    /\ lc_client' = lc_client + 1
    /\ lc_crawl_client' = lc_client + 1
    /\ lc_pc' = "retry"
    /\ UNCHANGED <<lc_pairs_left, lc_writer_closed, lc_requests, lc_end, lc_error_records>>
    /\ UNCHANGED lifecycle_frame

\* refresh_cookies raises: the exception leaves the loops.
RefreshFails ==
    /\ lc_pc = "refresh"
    /\ lc_pc' = "finally"
    /\ lc_end' = "refresh failed"
    /\ UNCHANGED <<lc_pairs_left, lc_client, lc_crawl_client, lc_closed, lc_writer_closed,
                   lc_requests, lc_error_records>>
    /\ UNCHANGED lifecycle_frame

\* The second call raises AuthenticationError: an error record is written
\* and the loops go on.
RetryRaisesAuthentication ==
    /\ lc_pc = "retry"
    /\ lc_error_records' = lc_error_records + 1
    /\ PairFinished

\* Any other exception leaves _crawl_keyword and the loops.
CrawlRaisesUnexpected ==
    /\ lc_pc \in {"first", "retry"}
    /\ lc_pc' = "finally"
    /\ lc_end' = "exception"
    /\ UNCHANGED <<lc_pairs_left, lc_client, lc_crawl_client, lc_closed, lc_writer_closed,
                   lc_requests, lc_error_records>>
    /\ UNCHANGED lifecycle_frame

\* `finally`: client.close() and writer.close().
Finally ==
    /\ lc_pc = "finally"
    /\ lc_closed' = lc_closed \cup {lc_client}
    /\ lc_writer_closed' = TRUE
    /\ lc_pc' = "ended"
    /\ UNCHANGED <<lc_pairs_left, lc_client, lc_crawl_client, lc_requests, lc_end,
                   lc_error_records>>
    /\ UNCHANGED lifecycle_frame

LifecycleNext ==
    \/ CrawlerSendsRequest
    \/ CrawlReturns
    \/ FirstCallRaisesAuthentication
    \/ RefreshReturns
    \/ RefreshFails
    \/ RetryRaisesAuthentication
    \/ CrawlRaisesUnexpected
    \/ Finally

LifecycleSpec == LifecycleInit /\ [][LifecycleNext]_vars

\* C36: however the run ends after the client was created, the client main
\* holds and the writer are closed (and so is every client before it); every
\* request was sent on a client that was open, with every older client
\* closed before it.
C36_ClientsClosed ==
    /\ lc_pc = "ended"
           => /\ lc_end \in {"done", "refresh failed", "exception"}
              /\ \A c \in 1..lc_client : c \in lc_closed
              /\ lc_writer_closed
    /\ \A request \in lc_requests : request.open /\ request.older_closed

\* The run ended because the second refresh failed; requests were sent on
\* the first and on the second client.
C36_Witness ==
    /\ lc_pc = "ended"
    /\ lc_end = "refresh failed"
    /\ lc_client = 2
    /\ {request.client : request \in lc_requests} = {1, 2}
    /\ lc_closed = {1, 2}
    /\ lc_writer_closed

-----------------------------------------------------------------------------
(* _sleep_backoff as a function of its arguments and the clock.             *)

\* The attempts of the calls.
BackoffAttempts == 1..6

\* The retry_after texts of the calls: none, empty, digits (0, 7, 30, 999),
\* digits between blanks, digits and a letter.
RetryAfterValues ==
    { NoHeader, <<>>, <<"0">>, <<"7">>, <<"3", "0">>, <<"9", "9", "9">>,
      <<" ", "7", " ">>, <<"7", "x">> }

\* int(time.time()) at the call.
BackoffClock == {5, 30, 98}

BackoffInputs ==
    [attempt : BackoffAttempts, retry_after : RetryAfterValues,
     kind : {"default", "rate_limit"}, now : BackoffClock]

\* `retry_after and retry_after.isdigit()`, and int(retry_after) then.
retry_after_number(retry_after) ==
    IF retry_after # NoHeader /\ retry_after # <<>> /\ isdigit(retry_after)
    THEN int(retry_after)
    ELSE NoNumber

BackoffInit ==
    /\ NoCore
    /\ NoRateLimit
    /\ NoVerify
    /\ NoSession
    /\ NoTxn
    /\ NoStamp
    /\ NoParser
    /\ NoMain
    /\ NoLifecycle
    /\ bo_input \in BackoffInputs
    /\ bo_slept = NoNumber
    /\ bo_returned = NoNumber

\* The call: time.sleep(wait); return wait.
SleepBackoff ==
    LET wait == _sleep_backoff(bo_input.attempt, retry_after_number(bo_input.retry_after),
                               bo_input.kind, bo_input.now)
    IN  /\ bo_slept = NoNumber
        /\ bo_slept' = wait
        /\ bo_returned' = wait
        /\ UNCHANGED bo_input
        /\ UNCHANGED backoff_frame

BackoffNext == SleepBackoff

BackoffSpec == BackoffInit /\ [][BackoffNext]_vars

\* The number a text of digits reads as.
RECURSIVE NumberOf(_)
NumberOf(text) ==
    IF text = <<>> THEN 0
    ELSE 10 * NumberOf(SubSeq(text, 1, Len(text) - 1))
             + (CHOOSE d \in 0..9 : DigitChars[d + 1] = text[Len(text)])

\* C37: _sleep_backoff sleeps for, and returns, clamp(retry_after - now +
\* reset_buffer, 1, max_rate_limit_wait) when retry_after is an all-digits
\* text, whatever the kind; otherwise min(attempt * 30, fallback_wait) when
\* kind is rate_limit; otherwise min(2^(attempt-1), 8); every such sleep
\* lies between 1 and 900 seconds.
C37_SleepBackoffExact ==
    bo_slept # NoNumber
        => /\ bo_returned = bo_slept
           /\ bo_slept =
                  IF AllDigits(bo_input.retry_after)
                  THEN Clamp(NumberOf(bo_input.retry_after) - bo_input.now
                                 + ResetBufferSeconds, 1, MaxRateLimitWaitSeconds)
                  ELSE IF bo_input.kind = "rate_limit"
                       THEN Min(bo_input.attempt * 30, FallbackWaitSeconds)
                       ELSE Min(2 ^ (bo_input.attempt - 1), 8)
           /\ bo_slept >= 1
           /\ bo_slept <= 900

\* A reset 901 s ahead of the clock on a default-kind call: the sleep is the
\* cap of 900 s.
C37_Witness ==
    /\ bo_slept = MaxRateLimitWaitSeconds
    /\ bo_input.retry_after = <<"9", "9", "9">>
    /\ bo_input.now = 98
    /\ bo_input.kind = "default"

====
